---- MODULE Spec2Model ----
(***************************************************************************)
(* Cadence Calculator: the per-node cadence pipeline of the IAS and GDN    *)
(* processors (src/Processors/ias_processor.py, gdn_processor.py,          *)
(* base_processor.py).                                                     *)
(*                                                                         *)
(* The model follows ONE node key (one row of the Cadence table) through   *)
(* the stages of process(): create_cadence, apply_master_lookups,          *)
(* merge_columns (IAS), update_cadence_score, calculate_due_dates,         *)
(* finalize_cadence.  Every stage from create_cadence on is row-wise, so   *)
(* the row is the unit of behaviour.  The node's lookups into ARMT,        *)
(* Outflow and Master are the inputs; a finished run may be fed back as    *)
(* the Master of the next run (next month).                                *)
(*                                                                         *)
(* Cells.  A spreadsheet/DataFrame cell is a record [kind, val]:           *)
(*   nan       missing value (NaN / None / NaT)                            *)
(*   num       a Python number with the integral value val                 *)
(*   ts        a Timestamp of day number val                               *)
(*   sentinel  the string 'not Found!'                                     *)
(*   numstr    a string that spells the number val ('60', '9.0')           *)
(*   datestr   the string 'YYYY-MM-DD' of day number val                   *)
(*   text      any other string (float() raises, is_not_found is False);   *)
(*             of a policy name, val tells what the string contains:       *)
(*             0 no 'JSR', 1 '_JSR', 2 '-JSR', 3 'JSR' without '_' or '-'  *)
(*   nanstr    the string 'nan' (str() of a missing value), which          *)
(*             is_not_found accepts like '', 'None', 'NaT', 'not found'    *)
(*   absent    the column does not exist (yet) in the table                *)
(* Dates are day numbers; numbers are integers.                            *)
(***************************************************************************)
EXTENDS Integers, FiniteSets, Sequences, TLC

----------------------------------------------------------------------------
(* Bounds of the model *)

\* number of consecutive monthly runs, each fed the previous output as Master
MaxRuns == 2
\* resolved dates of the Outflow are the days 1..MaxDay
MaxDay == 1
\* ARMT parent_score cells are the numbers 0..MaxParentScore (6 is outside the risk table)
MaxParentScore == 6
\* rows of an ARMT file and of an Outflow file, when process() runs on whole tables
MaxArmtRows == 2
MaxOutflowRows == 2
\* resolved_date cells of an Outflow file: the days 1..MaxResolved, 0 for a missing one
MaxResolved == 2
\* executions of process() on the same files
MaxExecutions == 2
\* rows of an ARMT file when the Node Enumerator is examined on its own
MaxNodeRows == 2
\* rows of an Outflow file when the normalization of the Outflow is examined
MaxNCRows == 2

----------------------------------------------------------------------------
(* Cells *)

Cell(k, v) == [kind |-> k, val |-> v]
NaN == Cell("nan", 0)
Num(n) == Cell("num", n)
Ts(d) == Cell("ts", d)
NumStr(n) == Cell("numstr", n)
DateStr(d) == Cell("datestr", d)
Text == Cell("text", 0)
Absent == Cell("absent", 0)
NanStr == Cell("nanstr", 0)
\* a policy-name string, by what it contains (see above)
Policy(i) == Cell("text", i)

\* BaseProcessor.NOT_FOUND = 'not Found!'
NOT_FOUND == Cell("sentinel", 0)

\* BaseProcessor.is_not_found: None / NaN / the sentinel spellings
is_not_found(value) ==
    value.kind \in {"nan", "sentinel", "nanstr"}

\* the result of float(x) inside safe_to_numeric: [has |-> FALSE] stands for NaN
Float(n) == [has |-> TRUE, v |-> n]
FloatNaN == [has |-> FALSE, v |-> 0]

\* BaseProcessor.safe_to_numeric, per cell
safe_to_numeric(x) ==
    IF is_not_found(x) THEN FloatNaN
    ELSE IF x.kind \in {"num", "numstr"} THEN Float(x.val)
    ELSE FloatNaN

\* str(x) of a cell that is not missing
Str(x) ==
    CASE x.kind = "num" -> NumStr(x.val)
      [] x.kind = "ts" -> DateStr(x.val)
      [] OTHER -> x

\* BaseProcessor.date_to_string
date_to_string(date_value) ==
    IF is_not_found(date_value) THEN NOT_FOUND
    ELSE IF date_value.kind \in {"numstr", "datestr", "text"} THEN date_value
    ELSE IF date_value.kind = "ts" THEN DateStr(date_value.val)
    ELSE IF date_value.kind = "num" THEN DateStr(0)
    ELSE NOT_FOUND

\* BaseProcessor.add_days_to_date: only a string that parses as a date gets an offset
add_days_to_date(date_value, days) ==
    IF is_not_found(date_value) THEN NOT_FOUND
    ELSE IF date_value.kind \in {"datestr", "ts"} THEN DateStr(date_value.val + days)
    ELSE NOT_FOUND

----------------------------------------------------------------------------
(* Program constants *)

\* RISK_TO_CADENCE of both processors
RISK_TO_CADENCE ==
    [r \in 0..5 |-> CASE r = 0 -> 30 [] r = 1 -> 30 [] r = 2 -> 60
                      [] r = 3 -> 90 [] r = 4 -> 180 [] r = 5 -> 365]

\* the cadence tiers, in order
Tiers == <<30, 60, 90, 180, 365>>
TierSet == {30, 60, 90, 180, 365}

\* Cadence['risk score'].map(RISK_TO_CADENCE).fillna(30).astype(int)
risk_to_score(risk) ==
    IF risk \in DOMAIN RISK_TO_CADENCE THEN RISK_TO_CADENCE[risk] ELSE 30

\* np.where(cond, value, new_score) on one row
Where(cond, value, new_score) == IF cond THEN value ELSE new_score

\* comparisons of a float that may be NaN (any comparison with NaN is False)
Ge(x, k) == x.has /\ x.v >= k
Lt(x, k) == x.has /\ x.v < k
Eq(x, k) == x.has /\ x.v = k

----------------------------------------------------------------------------
(* Inputs: what the node key finds in the three tables *)

\* NC sums that straddle the two thresholds 10 and 15
NCValues == {0, 9, 10, 14, 15}
\* Cadence Score cells of a Master file: the five tiers, a number outside them, text, empty
MasterScoreCells == {NaN, Text} \cup {Num(n) : n \in TierSet \cup {45}}
\* Due Date cells of a Master file: empty, text, a date cell or a date string of day 0
MasterDueCells == {NaN, Text, Ts(0), DateStr(0)}
\* NC Count cells of a Master file; Absent: the Master has no 'NC Count' column
MasterNCCells == {Absent, NOT_FOUND} \cup {NumStr(n) : n \in NCValues}

NoArmt == [hit |-> FALSE, parent_score |-> NaN, policy_name |-> NaN, Destination |-> NaN]
NoOutflow == [hit |-> FALSE, NC |-> 0, Resolved_date |-> NOT_FOUND]
NoMaster == [hit |-> FALSE, Cadence_Score |-> NaN, Due_Date |-> NaN, NC_Count |-> Absent]

\* first-seen ARMT row of the key: its parent_score cell (a number, or empty)
ArmtRows ==
    {[hit |-> TRUE, parent_score |-> c, policy_name |-> Text, Destination |-> Text] :
        c \in {NaN} \cup {Num(n) : n \in 0..MaxParentScore}}

\* process_outflow: the first row of the key after the sort, with the key's NC sum.
\* 'Resolved date' is date_to_string of the parsed date: a date string or the sentinel.
OutflowRows ==
    {[hit |-> TRUE, NC |-> n, Resolved_date |-> d] :
        n \in NCValues, d \in {NOT_FOUND} \cup {DateStr(x) : x \in 1..MaxDay}}

\* first-seen Master row of the key
MasterRows ==
    {[hit |-> TRUE, Cadence_Score |-> s, Due_Date |-> d, NC_Count |-> n] :
        s \in MasterScoreCells, d \in MasterDueCells, n \in MasterNCCells}

\* Master rows found through the secondary key: 'Previous NC' is never read from them
MasterRows2 ==
    {[hit |-> TRUE, Cadence_Score |-> s, Due_Date |-> d, NC_Count |-> Absent] :
        s \in MasterScoreCells, d \in MasterDueCells}

----------------------------------------------------------------------------
(* State *)

VARIABLES
    proc,      \* "GDN" or "IAS": the processor whose process() runs
    pc,        \* the stage of process() that runs next
    run,       \* 1 for the first month, n+1 when the output of run n is the Master
    armt,      \* lookup of the key in ARMT (IAS: primary key combined_class)
    armt2,     \* IAS: lookup of the key in ARMT by combined_class2
    outflow,   \* lookup of the key in Outflow (IAS: primary key)
    outflow2,  \* IAS: lookup of the key in Outflow by combined_class2
    master,    \* lookup of the key in Master (IAS: 'Combined Classes')
    master2,   \* IAS: lookup of the key in Master by 'Combined Classes2'
    Cadence,   \* the node's row of the Cadence DataFrame
    \* process() on whole tables:
    files,      \* files_dict: the rows of the ARMT and of the Outflow file
    step,       \* the statement of process() that runs next
    exec,       \* 1 for the first execution on these files, 2 for the second
    first,      \* what the first execution returned
    armt_df,    \* the local 'armt' of process(), after process_armt
    outflow_df, \* the local 'outflow' of process(), after process_outflow
    nodes,      \* the local 'nodes': list(nodes) of create_nodes
    Cadence_df, \* the local 'Cadence': one [key, row] per row of the DataFrame
    master_df,  \* the local 'master' of process(): the columns of the DataFrame
    executed,   \* the pipeline stages this execution has run
    result      \* what process() returned, or that it raised

rowvars == <<proc, pc, run, armt, armt2, outflow, outflow2, master, master2, Cadence>>
tablevars == <<files, step, exec, first, armt_df, outflow_df, nodes, Cadence_df,
               master_df, executed, result>>
vars == <<rowvars, tablevars>>

\* process() has not returned
NoResult == [returned |-> FALSE, raised |-> FALSE, success |-> FALSE, error |-> "",
             has_cadence |-> FALSE, cadence |-> <<>>, master |-> {}]

\* no table-level execution is under way (the single-row runs)
TablesIdle ==
    /\ files = [armt |-> <<>>, outflow |-> <<>>]
    /\ step = "idle"
    /\ exec = 1
    /\ first = NoResult
    /\ armt_df = <<>>
    /\ outflow_df = <<>>
    /\ nodes = <<>>
    /\ Cadence_df = <<>>
    /\ master_df = {}
    /\ executed = {}
    /\ result = NoResult

\* the row before create_cadence has filled it
EmptyRow ==
    [risk_score |-> 0, Cadence_Score |-> 0,
     risk_score2 |-> 0, Cadence_Score2 |-> 0,
     Policies |-> Absent, Policies2 |-> Absent, JSR |-> "absent",
     Destination |-> Absent, Destination2 |-> Absent,
     NC_Count |-> Absent, Resolved_Date |-> Absent,
     NC_Count2 |-> Absent, Resolved_Date2 |-> Absent,
     Previous_Cadence |-> Absent, Previous_Due_Date |-> Absent,
     Previous_Cadence2 |-> Absent, Previous_Due_Date2 |-> Absent,
     Previous_NC |-> Absent, Due_Date |-> Absent]

----------------------------------------------------------------------------
(* GDN: the stages of GDNProcessor.process on the node's row *)

\* Cadence['Policies']: the lookup of policy_name, .fillna(NOT_FOUND).astype(str)
policies_of(a) ==
    IF a.hit /\ a.policy_name.kind # "nan" THEN Str(a.policy_name) ELSE NOT_FOUND

\* GDN: process_armt aggregates policy_name with ','.join(x.astype(str).unique()),
\* so an empty cell reaches the lookup as the string 'nan', which fillna leaves
GDN_policies_of(a) ==
    IF ~a.hit THEN NOT_FOUND
    ELSE IF a.policy_name.kind = "nan" THEN NanStr ELSE Str(a.policy_name)

\* Cadence['Destination']: the lookup of Destination, .fillna(NOT_FOUND).astype(str);
\* process_armt made the column with astype(str), so an empty cell is the string 'nan'
destination_of(a) ==
    IF a.hit /\ a.Destination.kind # "nan" THEN Str(a.Destination) ELSE NOT_FOUND

\* Series.str.contains('_JSR|-JSR', na=False, regex=True) on one value
contains_JSR(x) == x.kind = "text" /\ x.val \in {1, 2}

\* .map({True: 'Yes', False: 'No'})
jsr_of(policies) == IF contains_JSR(policies) THEN "Yes" ELSE "No"

\* GDNProcessor.create_cadence: lookups, risk score, risk-derived Cadence Score
GDN_create_cadence(a, o) ==
    LET lookup == IF a.hit /\ a.parent_score.kind # "nan" THEN a.parent_score ELSE Num(1)
        numeric == safe_to_numeric(lookup)
        risk == IF numeric.has THEN numeric.v ELSE 1
        policies == GDN_policies_of(a)
    IN  [EmptyRow EXCEPT
            !.risk_score = risk,
            !.Policies = policies,
            !.JSR = jsr_of(policies),
            !.Destination = destination_of(a),
            !.Resolved_Date = IF o.hit THEN date_to_string(o.Resolved_date) ELSE NOT_FOUND,
            !.NC_Count = IF o.hit THEN NumStr(o.NC) ELSE NOT_FOUND,
            !.Cadence_Score = risk_to_score(risk)]

\* the lambda of 'Previous Cadence': NOT_FOUND if NaN, str(int(x)) of a number, else str(x)
previous_cadence_of(hit, x) ==
    IF ~hit \/ x.kind = "nan" THEN NOT_FOUND
    ELSE IF x.kind = "num" THEN NumStr(x.val)
    ELSE Str(x)

\* 'Previous Due Date': date_to_string of the Master cell, NOT_FOUND when the key is missing
previous_due_date_of(hit, v) ==
    IF ~hit THEN NOT_FOUND ELSE date_to_string(v)

\* 'Previous NC': NOT_FOUND without the column or the key, else str(x)
previous_nc_of(hit, x) ==
    IF x.kind = "absent" THEN NOT_FOUND
    ELSE IF ~hit \/ x.kind = "nan" THEN NOT_FOUND
    ELSE Str(x)

\* GDNProcessor.apply_master_lookups
GDN_apply_master_lookups(row, m) ==
    [row EXCEPT
        !.Previous_Cadence = previous_cadence_of(m.hit, m.Cadence_Score),
        !.Previous_Due_Date = previous_due_date_of(m.hit, m.Due_Date),
        !.Previous_NC = previous_nc_of(m.hit, m.NC_Count)]

\* GDNProcessor.update_cadence_score, rules of previous tier 30
GDN_rules_30(new_score, prev_cad, nc, prev_nc, risk) ==
    LET mask_30 == prev_cad.has /\ Eq(prev_cad, 30)
        s1 == Where(mask_30 /\ nc.has /\ Ge(nc, 10), 30, new_score)
        s2 == Where(mask_30 /\ nc.has /\ Lt(nc, 10) /\ prev_nc.has /\ Ge(prev_nc, 10), 30, s1)
        s3 == Where(mask_30 /\ ~nc.has /\ prev_nc.has /\ Ge(prev_nc, 10), 30, s2)
        s4 == Where(mask_30 /\ nc.has /\ Lt(nc, 10) /\ prev_nc.has /\ Lt(prev_nc, 10), 60, s3)
        s5 == Where(mask_30 /\ nc.has /\ Lt(nc, 10) /\ ~prev_nc.has, 60, s4)
    IN  s5

\* mutant of GDN_rules_60: a row without current NC is promoted when the previous NC
\* is below the threshold
GDN_rules_60_absent_nc_promotes(new_score, prev_cad, nc, prev_nc, risk) ==
    LET mask_60 == prev_cad.has /\ Eq(prev_cad, 60)
        s1 == Where(mask_60 /\ nc.has /\ Ge(nc, 10), 30, new_score)
        s2 == Where(mask_60 /\ nc.has /\ Lt(nc, 10) /\ prev_nc.has /\ Ge(prev_nc, 10), 60, s1)
        s3 == Where(mask_60 /\ ~nc.has /\ prev_nc.has /\ Ge(prev_nc, 10), 60, s2)
        s4 == Where(mask_60 /\ nc.has /\ Lt(nc, 10) /\ prev_nc.has /\ Lt(prev_nc, 10), 90, s3)
        s5 == Where(mask_60 /\ nc.has /\ Lt(nc, 10) /\ ~prev_nc.has, 90, s4)
        s6 == Where(mask_60 /\ ~nc.has /\ prev_nc.has /\ Lt(prev_nc, 10), 90, s5)
    IN  s6

\* GDNProcessor.update_cadence_score, rules of previous tier 60
GDN_rules_60(new_score, prev_cad, nc, prev_nc, risk) ==
    LET mask_60 == prev_cad.has /\ Eq(prev_cad, 60)
        s1 == Where(mask_60 /\ nc.has /\ Ge(nc, 10), 30, new_score)
        s2 == Where(mask_60 /\ nc.has /\ Lt(nc, 10) /\ prev_nc.has /\ Ge(prev_nc, 10), 60, s1)
        s3 == Where(mask_60 /\ ~nc.has /\ prev_nc.has /\ Ge(prev_nc, 10), 60, s2)
        s4 == Where(mask_60 /\ nc.has /\ Lt(nc, 10) /\ prev_nc.has /\ Lt(prev_nc, 10), 90, s3)
        s5 == Where(mask_60 /\ nc.has /\ Lt(nc, 10) /\ ~prev_nc.has, 90, s4)
    IN  s5

\* GDNProcessor.update_cadence_score, rules of previous tier 90
GDN_rules_90(new_score, prev_cad, nc, prev_nc, risk) ==
    LET mask_90 == prev_cad.has /\ Eq(prev_cad, 90)
        s1 == Where(mask_90 /\ nc.has /\ Ge(nc, 10), 60, new_score)
        s2 == Where(mask_90 /\ nc.has /\ Lt(nc, 10) /\ prev_nc.has /\ Ge(prev_nc, 10), 90, s1)
        s3 == Where(mask_90 /\ ~nc.has /\ prev_nc.has /\ Ge(prev_nc, 10), 90, s2)
        s4 == Where(mask_90 /\ nc.has /\ Lt(nc, 10) /\ prev_nc.has /\ Lt(prev_nc, 10)
                       /\ risk \in {1, 2, 3}, 90, s3)
        s5 == Where(mask_90 /\ nc.has /\ Lt(nc, 10) /\ prev_nc.has /\ Lt(prev_nc, 10)
                       /\ risk \in {4, 5}, 180, s4)
        s6 == Where(mask_90 /\ nc.has /\ Lt(nc, 10) /\ ~prev_nc.has /\ risk \in {1, 2, 3}, 90, s5)
        s7 == Where(mask_90 /\ nc.has /\ Lt(nc, 10) /\ ~prev_nc.has /\ risk \in {4, 5}, 180, s6)
    IN  s7

\* mutant of GDN_rules_180: the threshold of tier 180 is 10 instead of 15
GDN_rules_180_threshold_10(new_score, prev_cad, nc, prev_nc, risk) ==
    LET mask_180 == prev_cad.has /\ Eq(prev_cad, 180)
        s1 == Where(mask_180 /\ nc.has /\ Ge(nc, 10), 90, new_score)
        s2 == Where(mask_180 /\ nc.has /\ Lt(nc, 10) /\ prev_nc.has /\ Ge(prev_nc, 10), 180, s1)
        s3 == Where(mask_180 /\ ~nc.has /\ prev_nc.has /\ Ge(prev_nc, 10), 180, s2)
        s4 == Where(mask_180 /\ nc.has /\ Lt(nc, 10) /\ prev_nc.has /\ Lt(prev_nc, 10)
                       /\ risk = 4, 180, s3)
        s5 == Where(mask_180 /\ nc.has /\ Lt(nc, 10) /\ prev_nc.has /\ Lt(prev_nc, 10)
                       /\ risk # 4, 365, s4)
        s6 == Where(mask_180 /\ nc.has /\ Lt(nc, 10) /\ ~prev_nc.has /\ risk = 4, 180, s5)
        s7 == Where(mask_180 /\ nc.has /\ Lt(nc, 10) /\ ~prev_nc.has /\ risk # 4, 365, s6)
    IN  s7

\* mutant of GDN_rules_180: risk tiers 1, 2, 3 hold at 180 like risk tier 4
GDN_rules_180_low_risk_holds(new_score, prev_cad, nc, prev_nc, risk) ==
    LET mask_180 == prev_cad.has /\ Eq(prev_cad, 180)
        s1 == Where(mask_180 /\ nc.has /\ Ge(nc, 15), 90, new_score)
        s2 == Where(mask_180 /\ nc.has /\ Lt(nc, 15) /\ prev_nc.has /\ Ge(prev_nc, 15), 180, s1)
        s3 == Where(mask_180 /\ ~nc.has /\ prev_nc.has /\ Ge(prev_nc, 15), 180, s2)
        s4 == Where(mask_180 /\ nc.has /\ Lt(nc, 15) /\ prev_nc.has /\ Lt(prev_nc, 15)
                       /\ risk \in {1, 2, 3, 4}, 180, s3)
        s5 == Where(mask_180 /\ nc.has /\ Lt(nc, 15) /\ prev_nc.has /\ Lt(prev_nc, 15)
                       /\ risk \notin {1, 2, 3, 4}, 365, s4)
        s6 == Where(mask_180 /\ nc.has /\ Lt(nc, 15) /\ ~prev_nc.has
                       /\ risk \in {1, 2, 3, 4}, 180, s5)
        s7 == Where(mask_180 /\ nc.has /\ Lt(nc, 15) /\ ~prev_nc.has
                       /\ risk \notin {1, 2, 3, 4}, 365, s6)
    IN  s7

\* GDNProcessor.update_cadence_score, rules of previous tier 180
GDN_rules_180(new_score, prev_cad, nc, prev_nc, risk) ==
    LET mask_180 == prev_cad.has /\ Eq(prev_cad, 180)
        s1 == Where(mask_180 /\ nc.has /\ Ge(nc, 15), 90, new_score)
        s2 == Where(mask_180 /\ nc.has /\ Lt(nc, 15) /\ prev_nc.has /\ Ge(prev_nc, 15), 180, s1)
        s3 == Where(mask_180 /\ ~nc.has /\ prev_nc.has /\ Ge(prev_nc, 15), 180, s2)
        s4 == Where(mask_180 /\ nc.has /\ Lt(nc, 15) /\ prev_nc.has /\ Lt(prev_nc, 15)
                       /\ risk = 4, 180, s3)
        s5 == Where(mask_180 /\ nc.has /\ Lt(nc, 15) /\ prev_nc.has /\ Lt(prev_nc, 15)
                       /\ risk # 4, 365, s4)
        s6 == Where(mask_180 /\ nc.has /\ Lt(nc, 15) /\ ~prev_nc.has /\ risk = 4, 180, s5)
        s7 == Where(mask_180 /\ nc.has /\ Lt(nc, 15) /\ ~prev_nc.has /\ risk # 4, 365, s6)
    IN  s7

\* GDNProcessor.update_cadence_score, rules of previous tier 365
GDN_rules_365(new_score, prev_cad, nc, prev_nc, risk) ==
    LET mask_365 == prev_cad.has /\ Eq(prev_cad, 365)
        s1 == Where(mask_365 /\ nc.has /\ Ge(nc, 15), 180, new_score)
        s2 == Where(mask_365 /\ nc.has /\ Lt(nc, 15) /\ prev_nc.has /\ Ge(prev_nc, 15), 365, s1)
        s3 == Where(mask_365 /\ ~nc.has /\ prev_nc.has /\ Ge(prev_nc, 15), 365, s2)
        s4 == Where(mask_365 /\ nc.has /\ Lt(nc, 15) /\ prev_nc.has /\ Lt(prev_nc, 15), 365, s3)
        s5 == Where(mask_365 /\ nc.has /\ Lt(nc, 15) /\ ~prev_nc.has, 365, s4)
    IN  s5

\* GDNProcessor.update_cadence_score: the np.where chain, in the order of the source
GDN_update_cadence_score(row) ==
    LET nc_numeric == safe_to_numeric(row.NC_Count)
        prev_nc_numeric == safe_to_numeric(row.Previous_NC)
        prev_cad_numeric == safe_to_numeric(row.Previous_Cadence)
        risk == row.risk_score
        n0 == row.Cadence_Score
        n1 == GDN_rules_30(n0, prev_cad_numeric, nc_numeric, prev_nc_numeric, risk)
        n2 == GDN_rules_60(n1, prev_cad_numeric, nc_numeric, prev_nc_numeric, risk)
        n3 == GDN_rules_90(n2, prev_cad_numeric, nc_numeric, prev_nc_numeric, risk)
        n4 == GDN_rules_180(n3, prev_cad_numeric, nc_numeric, prev_nc_numeric, risk)
        n5 == GDN_rules_365(n4, prev_cad_numeric, nc_numeric, prev_nc_numeric, risk)
    IN  [row EXCEPT !.Cadence_Score = n5]

\* 'days = None'
NoDays == [has |-> FALSE, v |-> 0]
Days(n) == [has |-> TRUE, v |-> n]

\* a range rule '< 15' that also has an entry for the score 90
days_block_wide(k, nc, cad, days) ==
    CASE k = 1 -> IF nc < 10
                  THEN (IF cad = 30 THEN Days(30) ELSE IF cad = 60 THEN Days(60)
                        ELSE IF cad = 90 THEN Days(90) ELSE days)
                  ELSE days
      [] k = 2 -> IF nc < 15
                  THEN (IF cad = 90 THEN Days(90) ELSE IF cad = 180 THEN Days(180)
                        ELSE IF cad = 365 THEN Days(365) ELSE days)
                  ELSE days
      [] k = 3 -> IF nc >= 10
                  THEN (IF cad = 30 THEN Days(30) ELSE IF cad = 60 THEN Days(30)
                        ELSE IF cad = 90 THEN Days(60) ELSE days)
                  ELSE days
      [] k = 4 -> IF nc >= 15
                  THEN (IF cad = 180 THEN Days(90) ELSE IF cad = 365 THEN Days(180) ELSE days)
                  ELSE days

\* calculate_due_dates: the k-th of the four 'if nc ...:' blocks, which assigns
\* 'days' when it has an entry for the score and leaves it otherwise
days_block(k, nc, cad, days) ==
    CASE k = 1 -> IF nc < 10
                  THEN (IF cad = 30 THEN Days(30) ELSE IF cad = 60 THEN Days(60)
                        ELSE IF cad = 90 THEN Days(90) ELSE days)
                  ELSE days
      [] k = 2 -> IF nc < 15
                  THEN (IF cad = 180 THEN Days(180) ELSE IF cad = 365 THEN Days(365) ELSE days)
                  ELSE days
      [] k = 3 -> IF nc >= 10
                  THEN (IF cad = 30 THEN Days(30) ELSE IF cad = 60 THEN Days(30)
                        ELSE IF cad = 90 THEN Days(60) ELSE days)
                  ELSE days
      [] k = 4 -> IF nc >= 15
                  THEN (IF cad = 180 THEN Days(90) ELSE IF cad = 365 THEN Days(180) ELSE days)
                  ELSE days

\* mutant of GDN_days: the reduced offsets start above 10, not at 10
GDN_days_strict(nc, cad) ==
    LET d0 == NoDays
        d1 == IF nc < 10
              THEN (IF cad = 30 THEN Days(30) ELSE IF cad = 60 THEN Days(60)
                    ELSE IF cad = 90 THEN Days(90) ELSE d0)
              ELSE d0
        d2 == IF nc < 15
              THEN (IF cad = 180 THEN Days(180) ELSE IF cad = 365 THEN Days(365) ELSE d1)
              ELSE d1
        d3 == IF nc > 10
              THEN (IF cad = 30 THEN Days(30) ELSE IF cad = 60 THEN Days(30)
                    ELSE IF cad = 90 THEN Days(60) ELSE d2)
              ELSE d2
        d4 == IF nc >= 15
              THEN (IF cad = 180 THEN Days(90) ELSE IF cad = 365 THEN Days(180) ELSE d3)
              ELSE d3
    IN  d4

\* GDNProcessor.calculate_due_dates: the four NC-range blocks that choose 'days'
GDN_days(nc, cad) ==
    LET d0 == NoDays
        d1 == IF nc < 10
              THEN (IF cad = 30 THEN Days(30) ELSE IF cad = 60 THEN Days(60)
                    ELSE IF cad = 90 THEN Days(90) ELSE d0)
              ELSE d0
        d2 == IF nc < 15
              THEN (IF cad = 180 THEN Days(180) ELSE IF cad = 365 THEN Days(365) ELSE d1)
              ELSE d1
        d3 == IF nc >= 10
              THEN (IF cad = 30 THEN Days(30) ELSE IF cad = 60 THEN Days(30)
                    ELSE IF cad = 90 THEN Days(60) ELSE d2)
              ELSE d2
        d4 == IF nc >= 15
              THEN (IF cad = 180 THEN Days(90) ELSE IF cad = 365 THEN Days(180) ELSE d3)
              ELSE d3
    IN  d4

\* a loop that takes the Previous Due Date when the Resolved Date is unknown
GDN_due_date_loop_uses_previous(row) ==
    LET nc == safe_to_numeric(row.NC_Count)
        cad == row.Cadence_Score
        resolved == row.Resolved_Date
        days == GDN_days(nc.v, cad)
    IN  [row EXCEPT !.Due_Date =
            IF ~nc.has THEN NOT_FOUND
            ELSE IF is_not_found(resolved) THEN date_to_string(row.Previous_Due_Date)
            ELSE IF days.has THEN add_days_to_date(resolved, days.v)
            ELSE NOT_FOUND]

\* GDNProcessor.calculate_due_dates: the loop that computes 'Due Date'
GDN_due_date_loop(row) ==
    LET nc == safe_to_numeric(row.NC_Count)
        cad == row.Cadence_Score
        resolved == row.Resolved_Date
        days == GDN_days(nc.v, cad)
    IN  [row EXCEPT !.Due_Date =
            IF ~nc.has \/ is_not_found(resolved) THEN NOT_FOUND
            ELSE IF days.has THEN add_days_to_date(resolved, days.v)
            ELSE NOT_FOUND]

\* int(float(prev_cad)) inside try/except (ValueError, TypeError): pass
int_float_or(prev_cad, old) ==
    IF prev_cad.kind \in {"num", "numstr"} THEN prev_cad.val ELSE old

\* mutant of GDN_fallback: the fallback carries the due date but not the Cadence Score
GDN_fallback_keeps_score(row) ==
    IF is_not_found(row.NC_Count)
    THEN [row EXCEPT
            !.Due_Date =
                IF ~is_not_found(row.Previous_Due_Date)
                THEN Str(row.Previous_Due_Date)
                ELSE row.Due_Date]
    ELSE row

\* mutant of GDN_fallback: the fallback is applied to every row, also when NC is known
GDN_fallback_unguarded(row) ==
    [row EXCEPT
        !.Cadence_Score =
            IF ~is_not_found(row.Previous_Cadence)
            THEN int_float_or(row.Previous_Cadence, row.Cadence_Score)
            ELSE row.Cadence_Score,
        !.Due_Date =
            IF ~is_not_found(row.Previous_Due_Date)
            THEN Str(row.Previous_Due_Date)
            ELSE row.Due_Date]

\* GDNProcessor.calculate_due_dates: the fallback to the previous values
GDN_fallback(row) ==
    IF is_not_found(row.NC_Count)
    THEN [row EXCEPT
            !.Cadence_Score =
                IF ~is_not_found(row.Previous_Cadence)
                THEN int_float_or(row.Previous_Cadence, row.Cadence_Score)
                ELSE row.Cadence_Score,
            !.Due_Date =
                IF ~is_not_found(row.Previous_Due_Date)
                THEN Str(row.Previous_Due_Date)
                ELSE row.Due_Date]
    ELSE row

\* GDNProcessor.calculate_due_dates
GDN_calculate_due_dates(row) == GDN_fallback(GDN_due_date_loop(row))

\* GDNProcessor.finalize_cadence
GDN_finalize_cadence(row) ==
    [row EXCEPT
        !.risk_score = IF row.risk_score = 0 THEN 1 ELSE row.risk_score,
        !.Cadence_Score = row.Cadence_Score,
        !.Due_Date = date_to_string(row.Due_Date)]

----------------------------------------------------------------------------
(* IAS: the stages of IASProcessor.process on the node's row *)

\* IASProcessor.create_cadence: primary and secondary lookups, risk score from the
\* primary ARMT lookup alone, risk-derived Cadence Score
IAS_create_cadence(a, a2, o, o2) ==
    LET lookup == IF a.hit /\ a.parent_score.kind # "nan" THEN a.parent_score ELSE Num(1)
        numeric == safe_to_numeric(lookup)
        risk == IF numeric.has THEN numeric.v ELSE 1
        lookup2 == IF a2.hit /\ a2.parent_score.kind # "nan" THEN a2.parent_score ELSE Num(1)
        numeric2 == safe_to_numeric(lookup2)
        risk2 == IF numeric2.has THEN numeric2.v ELSE 1
        policies == policies_of(a)
    IN  [EmptyRow EXCEPT
            !.risk_score = risk,
            !.risk_score2 = risk2,
            !.Cadence_Score2 = risk_to_score(risk2),
            !.Policies = policies,
            !.Policies2 = policies_of(a2),
            !.Destination = destination_of(a),
            !.Destination2 = destination_of(a2),
            !.JSR = jsr_of(policies),
            !.Resolved_Date = IF o.hit THEN date_to_string(o.Resolved_date) ELSE NOT_FOUND,
            !.Resolved_Date2 = IF o2.hit THEN date_to_string(o2.Resolved_date) ELSE NOT_FOUND,
            !.NC_Count = IF o.hit THEN NumStr(o.NC) ELSE NOT_FOUND,
            !.NC_Count2 = IF o2.hit THEN NumStr(o2.NC) ELSE NOT_FOUND,
            !.Cadence_Score = risk_to_score(risk)]

\* IASProcessor.apply_master_lookups: 'Previous NC' comes from the primary lookup only
IAS_apply_master_lookups(row, m, m2) ==
    [row EXCEPT
        !.Previous_Cadence = previous_cadence_of(m.hit, m.Cadence_Score),
        !.Previous_Cadence2 = previous_cadence_of(m2.hit, m2.Cadence_Score),
        !.Previous_Due_Date = previous_due_date_of(m.hit, m.Due_Date),
        !.Previous_Due_Date2 = previous_due_date_of(m2.hit, m2.Due_Date),
        !.Previous_NC = previous_nc_of(m.hit, m.NC_Count)]

\* a merge that takes the secondary value wherever there is one
merge_pair_prefers_secondary(primary, secondary) ==
    IF is_not_found(secondary) THEN primary ELSE secondary

\* one pair of merge_columns: the secondary value where the primary is not found
merge_pair(primary, secondary) ==
    IF is_not_found(primary) THEN secondary ELSE primary

\* IASProcessor.merge_columns (the pairs of the columns the model carries)
IAS_merge_columns(row) ==
    [row EXCEPT
        !.Policies = merge_pair(row.Policies, row.Policies2),
        !.Destination = merge_pair(row.Destination, row.Destination2),
        !.Resolved_Date = merge_pair(row.Resolved_Date, row.Resolved_Date2),
        !.Previous_Cadence = merge_pair(row.Previous_Cadence, row.Previous_Cadence2),
        !.Previous_Due_Date = merge_pair(row.Previous_Due_Date, row.Previous_Due_Date2),
        !.NC_Count = merge_pair(row.NC_Count, row.NC_Count2)]

\* IASProcessor.update_cadence_score, rules of previous tier 30
IAS_rules_30(new_score, prev_cad, nc, prev_nc, risk) ==
    LET mask_30 == prev_cad.has /\ Eq(prev_cad, 30)
        s1 == Where(mask_30 /\ nc.has /\ Ge(nc, 10), 30, new_score)
        s2 == Where(mask_30 /\ nc.has /\ Lt(nc, 10) /\ prev_nc.has /\ Ge(prev_nc, 10), 30, s1)
        s3 == Where(mask_30 /\ ~nc.has /\ prev_nc.has /\ Ge(prev_nc, 10), 30, s2)
        s4 == Where(mask_30 /\ nc.has /\ Lt(nc, 10) /\ prev_nc.has /\ Lt(prev_nc, 10), 60, s3)
        s5 == Where(mask_30 /\ nc.has /\ Lt(nc, 10) /\ ~prev_nc.has, 60, s4)
    IN  s5

\* mutant of IAS_rules_60: the tier is matched as a bucket (30, 60], not by equality
IAS_rules_60_bucket(new_score, prev_cad, nc, prev_nc, risk) ==
    LET mask_60 == prev_cad.has /\ prev_cad.v > 30 /\ prev_cad.v <= 60
        s1 == Where(mask_60 /\ nc.has /\ Ge(nc, 10), 30, new_score)
        s2 == Where(mask_60 /\ nc.has /\ Lt(nc, 10) /\ prev_nc.has /\ Ge(prev_nc, 10), 60, s1)
        s3 == Where(mask_60 /\ ~nc.has /\ prev_nc.has /\ Ge(prev_nc, 10), 60, s2)
        s4 == Where(mask_60 /\ nc.has /\ Lt(nc, 10) /\ prev_nc.has /\ Lt(prev_nc, 10), 90, s3)
        s5 == Where(mask_60 /\ nc.has /\ Lt(nc, 10) /\ ~prev_nc.has, 90, s4)
    IN  s5

\* IASProcessor.update_cadence_score, rules of previous tier 60
IAS_rules_60(new_score, prev_cad, nc, prev_nc, risk) ==
    LET mask_60 == prev_cad.has /\ Eq(prev_cad, 60)
        s1 == Where(mask_60 /\ nc.has /\ Ge(nc, 10), 30, new_score)
        s2 == Where(mask_60 /\ nc.has /\ Lt(nc, 10) /\ prev_nc.has /\ Ge(prev_nc, 10), 60, s1)
        s3 == Where(mask_60 /\ ~nc.has /\ prev_nc.has /\ Ge(prev_nc, 10), 60, s2)
        s4 == Where(mask_60 /\ nc.has /\ Lt(nc, 10) /\ prev_nc.has /\ Lt(prev_nc, 10), 90, s3)
        s5 == Where(mask_60 /\ nc.has /\ Lt(nc, 10) /\ ~prev_nc.has, 90, s4)
    IN  s5

\* IASProcessor.update_cadence_score, rules of previous tier 90
IAS_rules_90(new_score, prev_cad, nc, prev_nc, risk) ==
    LET mask_90 == prev_cad.has /\ Eq(prev_cad, 90)
        s1 == Where(mask_90 /\ nc.has /\ Ge(nc, 10), 60, new_score)
        s2 == Where(mask_90 /\ nc.has /\ Lt(nc, 10) /\ prev_nc.has /\ Ge(prev_nc, 10), 90, s1)
        s3 == Where(mask_90 /\ ~nc.has /\ prev_nc.has /\ Ge(prev_nc, 10), 90, s2)
        s4 == Where(mask_90 /\ nc.has /\ Lt(nc, 10) /\ prev_nc.has /\ Lt(prev_nc, 10)
                       /\ risk \in {1, 2, 3}, 90, s3)
        s5 == Where(mask_90 /\ nc.has /\ Lt(nc, 10) /\ prev_nc.has /\ Lt(prev_nc, 10)
                       /\ risk \in {4, 5}, 180, s4)
        s6 == Where(mask_90 /\ nc.has /\ Lt(nc, 10) /\ ~prev_nc.has /\ risk \in {1, 2, 3}, 90, s5)
        s7 == Where(mask_90 /\ nc.has /\ Lt(nc, 10) /\ ~prev_nc.has /\ risk \in {4, 5}, 180, s6)
    IN  s7

\* IASProcessor.update_cadence_score, rules of previous tier 180
IAS_rules_180(new_score, prev_cad, nc, prev_nc, risk) ==
    LET mask_180 == prev_cad.has /\ Eq(prev_cad, 180)
        s1 == Where(mask_180 /\ nc.has /\ Ge(nc, 15), 90, new_score)
        s2 == Where(mask_180 /\ nc.has /\ Lt(nc, 15) /\ prev_nc.has /\ Ge(prev_nc, 15), 180, s1)
        s3 == Where(mask_180 /\ ~nc.has /\ prev_nc.has /\ Ge(prev_nc, 15), 180, s2)
        s4 == Where(mask_180 /\ nc.has /\ Lt(nc, 15) /\ prev_nc.has /\ Lt(prev_nc, 15)
                       /\ risk = 4, 180, s3)
        s5 == Where(mask_180 /\ nc.has /\ Lt(nc, 15) /\ prev_nc.has /\ Lt(prev_nc, 15)
                       /\ risk # 4, 365, s4)
        s6 == Where(mask_180 /\ nc.has /\ Lt(nc, 15) /\ ~prev_nc.has /\ risk = 4, 180, s5)
        s7 == Where(mask_180 /\ nc.has /\ Lt(nc, 15) /\ ~prev_nc.has /\ risk # 4, 365, s6)
    IN  s7

\* IASProcessor.update_cadence_score, rules of previous tier 365
IAS_rules_365(new_score, prev_cad, nc, prev_nc, risk) ==
    LET mask_365 == prev_cad.has /\ Eq(prev_cad, 365)
        s1 == Where(mask_365 /\ nc.has /\ Ge(nc, 15), 180, new_score)
        s2 == Where(mask_365 /\ nc.has /\ Lt(nc, 15) /\ prev_nc.has /\ Ge(prev_nc, 15), 365, s1)
        s3 == Where(mask_365 /\ ~nc.has /\ prev_nc.has /\ Ge(prev_nc, 15), 365, s2)
        s4 == Where(mask_365 /\ nc.has /\ Lt(nc, 15) /\ prev_nc.has /\ Lt(prev_nc, 15), 365, s3)
        s5 == Where(mask_365 /\ nc.has /\ Lt(nc, 15) /\ ~prev_nc.has, 365, s4)
    IN  s5

\* IASProcessor.update_cadence_score: the np.where chain, in the order of the source
IAS_update_cadence_score(row) ==
    LET nc_numeric == safe_to_numeric(row.NC_Count)
        prev_nc_numeric == safe_to_numeric(row.Previous_NC)
        prev_cad_numeric == safe_to_numeric(row.Previous_Cadence)
        risk == row.risk_score
        n0 == row.Cadence_Score
        n1 == IAS_rules_30(n0, prev_cad_numeric, nc_numeric, prev_nc_numeric, risk)
        n2 == IAS_rules_60(n1, prev_cad_numeric, nc_numeric, prev_nc_numeric, risk)
        n3 == IAS_rules_90(n2, prev_cad_numeric, nc_numeric, prev_nc_numeric, risk)
        n4 == IAS_rules_180(n3, prev_cad_numeric, nc_numeric, prev_nc_numeric, risk)
        n5 == IAS_rules_365(n4, prev_cad_numeric, nc_numeric, prev_nc_numeric, risk)
    IN  [row EXCEPT !.Cadence_Score = n5]

\* IASProcessor.calculate_due_dates: the four NC-range blocks that choose 'days'
IAS_days(nc, cad) ==
    LET d0 == NoDays
        d1 == IF nc < 10
              THEN (IF cad = 30 THEN Days(30) ELSE IF cad = 60 THEN Days(60)
                    ELSE IF cad = 90 THEN Days(90) ELSE d0)
              ELSE d0
        d2 == IF nc < 15
              THEN (IF cad = 180 THEN Days(180) ELSE IF cad = 365 THEN Days(365) ELSE d1)
              ELSE d1
        d3 == IF nc >= 10
              THEN (IF cad = 30 THEN Days(30) ELSE IF cad = 60 THEN Days(30)
                    ELSE IF cad = 90 THEN Days(60) ELSE d2)
              ELSE d2
        d4 == IF nc >= 15
              THEN (IF cad = 180 THEN Days(90) ELSE IF cad = 365 THEN Days(180) ELSE d3)
              ELSE d3
    IN  d4

\* IASProcessor.calculate_due_dates: the loop that computes 'Due Date'
IAS_due_date_loop(row) ==
    LET nc == safe_to_numeric(row.NC_Count)
        cad == row.Cadence_Score
        resolved == row.Resolved_Date
        days == IAS_days(nc.v, cad)
    IN  [row EXCEPT !.Due_Date =
            IF ~nc.has \/ is_not_found(resolved) THEN NOT_FOUND
            ELSE IF days.has THEN add_days_to_date(resolved, days.v)
            ELSE NOT_FOUND]

\* mutant of IAS_fallback: the fallback carries the Cadence Score but not the due date
IAS_fallback_skips_due_date(row) ==
    IF is_not_found(row.NC_Count)
    THEN [row EXCEPT
            !.Cadence_Score =
                IF ~is_not_found(row.Previous_Cadence)
                THEN int_float_or(row.Previous_Cadence, row.Cadence_Score)
                ELSE row.Cadence_Score]
    ELSE row

\* IASProcessor.calculate_due_dates: the fallback to the previous values
IAS_fallback(row) ==
    IF is_not_found(row.NC_Count)
    THEN [row EXCEPT
            !.Cadence_Score =
                IF ~is_not_found(row.Previous_Cadence)
                THEN int_float_or(row.Previous_Cadence, row.Cadence_Score)
                ELSE row.Cadence_Score,
            !.Due_Date =
                IF ~is_not_found(row.Previous_Due_Date)
                THEN Str(row.Previous_Due_Date)
                ELSE row.Due_Date]
    ELSE row

\* IASProcessor.calculate_due_dates
IAS_calculate_due_dates(row) == IAS_fallback(IAS_due_date_loop(row))

\* IASProcessor.finalize_cadence: drops the secondary columns
IAS_finalize_cadence(row) ==
    [row EXCEPT
        !.Policies2 = Absent,
        !.Destination2 = Absent,
        !.risk_score2 = 0,
        !.Cadence_Score2 = 0,
        !.Resolved_Date2 = Absent,
        !.Previous_Cadence2 = Absent,
        !.Previous_Due_Date2 = Absent,
        !.NC_Count2 = Absent,
        !.risk_score = IF row.risk_score = 0 THEN 1 ELSE row.risk_score,
        !.Cadence_Score = row.Cadence_Score,
        !.Due_Date = date_to_string(row.Due_Date)]

----------------------------------------------------------------------------
(* The run: process() stage by stage, and the next month's run *)

\* the files handed to process(): what the node key finds in ARMT, Outflow and Master.
\* GDN has one key (child_class).  An IAS key is found either through the primary
\* composite key (combined_class) or through the secondary one (combined_class2).
Init ==
    /\ proc \in {"GDN", "IAS"}
    /\ pc = "create_cadence"
    /\ run = 1
    /\ Cadence = EmptyRow
    /\ TablesIdle
    /\ \/ /\ armt \in ArmtRows
          /\ armt2 = NoArmt
          /\ outflow \in OutflowRows \cup {NoOutflow}
          /\ master \in MasterRows \cup {NoMaster}
          /\ outflow2 = NoOutflow
          /\ master2 = NoMaster
       \/ /\ proc = "IAS"
          /\ armt = NoArmt
          /\ armt2 \in ArmtRows
          /\ outflow = NoOutflow
          /\ master = NoMaster
          /\ outflow2 \in OutflowRows \cup {NoOutflow}
          /\ master2 \in MasterRows2 \cup {NoMaster}

\* ARMT rows with every kind of parent_score and policy_name cell: empty, text, a
\* number from -1 (below the risk table) to MaxParentScore; the policy strings 0..3
LookupArmtRows ==
    {[hit |-> TRUE, parent_score |-> c, policy_name |-> q, Destination |-> Text] :
        c \in {NaN, Text} \cup {Num(n) : n \in -1..MaxParentScore},
        q \in {NaN} \cup {Policy(i) : i \in 0..3}}

\* the same run over the ARMT side of the inputs: every ARMT cell, with or without an
\* Outflow row (NC 10) and a Master row (Cadence Score 90) for the key
LookupInit ==
    /\ proc \in {"GDN", "IAS"}
    /\ pc = "create_cadence"
    /\ run = 1
    /\ Cadence = EmptyRow
    /\ TablesIdle
    /\ \/ /\ armt \in LookupArmtRows
          /\ armt2 = NoArmt
          /\ outflow \in {NoOutflow} \cup {o \in OutflowRows : o.NC = 10}
          /\ master \in {NoMaster}
                \cup {m \in MasterRows : /\ m.Cadence_Score = Num(90)
                                         /\ m.Due_Date = NaN
                                         /\ m.NC_Count = Absent}
          /\ outflow2 = NoOutflow
          /\ master2 = NoMaster
       \/ /\ proc = "IAS"
          /\ armt = NoArmt
          /\ armt2 \in LookupArmtRows
          /\ outflow = NoOutflow
          /\ master = NoMaster
          /\ outflow2 \in {NoOutflow} \cup {o \in OutflowRows : o.NC = 10}
          /\ master2 \in {NoMaster}
                \cup {m \in MasterRows2 : m.Cadence_Score = Num(90) /\ m.Due_Date = NaN}

\* ARMT rows whose policy_name and include_destination_country cells are filled or
\* empty
MergeArmtRows ==
    {[hit |-> TRUE, parent_score |-> Num(2), policy_name |-> q, Destination |-> d] :
        q \in {NaN, Policy(0), Policy(1)}, d \in {Text, NanStr}}

\* the same run where the key may find rows through both of its lookups: every
\* combination of a primary and a secondary ARMT row, Outflow row and Master row
MergeInit ==
    /\ proc \in {"GDN", "IAS"}
    /\ pc = "create_cadence"
    /\ run = 1
    /\ Cadence = EmptyRow
    /\ TablesIdle
    /\ armt \in MergeArmtRows \cup {NoArmt}
    /\ outflow \in {NoOutflow} \cup {o \in OutflowRows : o.NC \in {0, 10}}
    /\ master \in {NoMaster}
          \cup {m \in MasterRows : /\ m.Cadence_Score \in {Num(90), Text}
                                   /\ m.Due_Date \in {NaN, DateStr(0)}
                                   /\ m.NC_Count = NumStr(0)}
    /\ \/ /\ armt.hit
          /\ armt2 = NoArmt
          /\ outflow2 = NoOutflow
          /\ master2 = NoMaster
       \/ /\ proc = "IAS"
          /\ armt2 \in MergeArmtRows
          /\ outflow2 \in {NoOutflow} \cup {o \in OutflowRows : o.NC \in {9, 10}}
          /\ master2 \in {NoMaster}
                \cup {m \in MasterRows2 : /\ m.Cadence_Score \in {Num(60), Text}
                                          /\ m.Due_Date \in {NaN, DateStr(0)}}

inputs == <<proc, run, armt, armt2, outflow, outflow2, master, master2>>

\* Cadence = self.create_cadence(nodes, armt, outflow, ...)
create_cadence ==
    /\ pc = "create_cadence"
    /\ Cadence' = IF proc = "GDN"
                  THEN GDN_create_cadence(armt, outflow)
                  ELSE IAS_create_cadence(armt, armt2, outflow, outflow2)
    /\ pc' = "apply_master_lookups"
    /\ UNCHANGED inputs
    /\ UNCHANGED tablevars

\* Cadence, master = self.apply_master_lookups(Cadence, master)
apply_master_lookups ==
    /\ pc = "apply_master_lookups"
    /\ Cadence' = IF proc = "GDN"
                  THEN GDN_apply_master_lookups(Cadence, master)
                  ELSE IAS_apply_master_lookups(Cadence, master, master2)
    /\ pc' = IF proc = "IAS" THEN "merge_columns" ELSE "update_cadence_score"
    /\ UNCHANGED inputs
    /\ UNCHANGED tablevars

\* Cadence = self.merge_columns(Cadence)   (IAS only)
merge_columns ==
    /\ pc = "merge_columns"
    /\ proc = "IAS"
    /\ Cadence' = IAS_merge_columns(Cadence)
    /\ pc' = "update_cadence_score"
    /\ UNCHANGED inputs
    /\ UNCHANGED tablevars

\* Cadence = self.update_cadence_score(Cadence)
update_cadence_score ==
    /\ pc = "update_cadence_score"
    /\ Cadence' = IF proc = "GDN"
                  THEN GDN_update_cadence_score(Cadence)
                  ELSE IAS_update_cadence_score(Cadence)
    /\ pc' = "calculate_due_dates"
    /\ UNCHANGED inputs
    /\ UNCHANGED tablevars

\* Cadence = self.calculate_due_dates(Cadence)
calculate_due_dates ==
    /\ pc = "calculate_due_dates"
    /\ Cadence' = IF proc = "GDN"
                  THEN GDN_calculate_due_dates(Cadence)
                  ELSE IAS_calculate_due_dates(Cadence)
    /\ pc' = "finalize_cadence"
    /\ UNCHANGED inputs
    /\ UNCHANGED tablevars

\* Cadence = self.finalize_cadence(Cadence); process() returns it
finalize_cadence ==
    /\ pc = "finalize_cadence"
    /\ Cadence' = IF proc = "GDN"
                  THEN GDN_finalize_cadence(Cadence)
                  ELSE IAS_finalize_cadence(Cadence)
    /\ pc' = "done"
    /\ UNCHANGED inputs
    /\ UNCHANGED tablevars

\* the node's row of a finished run, read back as a row of the next Master file:
\* 'Cadence Score' is an integer cell, 'Due Date' and 'NC Count' are the strings written
as_master_row(row) ==
    [hit |-> TRUE, Cadence_Score |-> Num(row.Cadence_Score),
     Due_Date |-> row.Due_Date, NC_Count |-> row.NC_Count]

\* the next month: the same ARMT and Outflow, and this run's Cadence output as the
\* Master.  The key finds the node's own row of the output: through 'child_class'
\* (GDN), 'Combined Classes' (IAS primary) or 'Combined Classes2' (IAS secondary).
next_month ==
    /\ pc = "done"
    /\ run < MaxRuns
    /\ run' = run + 1
    /\ master' = IF proc = "GDN" \/ armt.hit THEN as_master_row(Cadence) ELSE NoMaster
    /\ master2' = IF proc = "IAS" /\ ~armt.hit
                  THEN [as_master_row(Cadence) EXCEPT !.NC_Count = Absent]
                  ELSE NoMaster
    /\ Cadence' = EmptyRow
    /\ pc' = "create_cadence"
    /\ UNCHANGED <<proc, armt, armt2, outflow, outflow2>>
    /\ UNCHANGED tablevars

Next ==
    \/ create_cadence
    \/ apply_master_lookups
    \/ merge_columns
    \/ update_cadence_score
    \/ calculate_due_dates
    \/ finalize_cadence
    \/ next_month

Spec == Init /\ [][Next]_vars

LookupSpec == LookupInit /\ [][Next]_vars
MergeSpec == MergeInit /\ [][Next]_vars

\* month after month without end: the same ARMT and Outflow, and every run's Cadence
\* output as the Master of the next run ('run' stops counting at MaxRuns)
feed_back ==
    /\ pc = "done"
    /\ run' = IF run < MaxRuns THEN run + 1 ELSE run
    /\ master' = IF proc = "GDN" \/ armt.hit THEN as_master_row(Cadence) ELSE NoMaster
    /\ master2' = IF proc = "IAS" /\ ~armt.hit
                  THEN [as_master_row(Cadence) EXCEPT !.NC_Count = Absent]
                  ELSE NoMaster
    /\ Cadence' = EmptyRow
    /\ pc' = "create_cadence"
    /\ UNCHANGED <<proc, armt, armt2, outflow, outflow2>>
    /\ UNCHANGED tablevars

FeedbackNext ==
    \/ create_cadence
    \/ apply_master_lookups
    \/ merge_columns
    \/ update_cadence_score
    \/ calculate_due_dates
    \/ finalize_cadence
    \/ feed_back

\* every stage of a run and every next run takes place
FeedbackSpec == Init /\ [][FeedbackNext]_vars /\ WF_vars(FeedbackNext)

----------------------------------------------------------------------------
(* process() on whole tables: the files, process_armt, process_outflow,      *)
(* create_nodes.  A comma-separated country cell is the sequence of its      *)
(* parts; a GDN node key is a class name, an IAS node key is the tuple       *)
(* <<parent class, child class, <<source>> or <<source, destination>>>>.     *)

\* sequences over S of length at most n
SeqsUpTo(S, n) == UNION {[1..k -> S] : k \in 0..n}

\* source_country cells: a GDN source, a list that repeats an IAS source, neither
SourceCells == {<<"DE">>, <<"FR", "DE", "FR">>, <<"JP">>}

\* rows of an ARMT file
ArmtFileRows ==
    {[program |-> p, parent_class |-> "P", child_class |-> c, Source |-> src,
      Destination |-> <<"UK">>, parent_score |-> Num(2), policy_name |-> Text] :
        p \in {"AmazonGlobal", "CrossListing"}, c \in {"C", "No-Child"}, src \in SourceCells}

\* a number with a fractional part: val + 1/2
Frac(n) == Cell("frac", n)

\* a row of an Outflow file: the classes split off short_description and
\* root_cause_details (has_details: root_cause_details is not empty), the resolved
\* date (0: missing or unparseable), root_cause (has_root_cause: not empty),
\* assigned_to_group, the quantity and vendor_id cells, and the resolution 'FR-UK'
OutflowFileRow(c, d, hc, cause, hd, grp, q, v) ==
    [child_class |-> c, parent_class |-> "P", resolved_date |-> d,
     has_root_cause |-> hc, root_cause |-> cause, has_details |-> hd,
     assigned_to_group |-> grp, quantity |-> q, vendor_id |-> v,
     source |-> "FR", resolution |-> <<"FR", "UK">>]

\* rows that pass the filters of process_outflow, one defect each
OutflowFileRows ==
    {OutflowFileRow(c, d, TRUE, "Defect", TRUE, "RP - Other", Num(1), Num(0)) :
        c \in {"C", "P"}, d \in 0..MaxResolved}

\* rows that fail one filter each (an empty root_cause, a removed root cause, an
\* empty root_cause_details, a group removed by both processors, a group removed by
\* GDN only), rows that vary the two number cells, and a row of another key
NCOutflowRows ==
    {OutflowFileRow("C", 1, FALSE, "Defect", TRUE, "RP - Other", Num(1), Num(0)),
     OutflowFileRow("C", 1, TRUE, "Duplicate", TRUE, "RP - Other", Num(1), Num(0)),
     OutflowFileRow("C", 1, TRUE, "Defect", FALSE, "RP - Other", Num(1), Num(0)),
     OutflowFileRow("C", 1, TRUE, "Defect", TRUE, "RP - AG Auditors", Num(1), Num(0)),
     OutflowFileRow("C", 1, TRUE, "Defect", TRUE, "RP - AG Auditors FR", Num(1), Num(0)),
     OutflowFileRow("P", 1, TRUE, "Defect", TRUE, "RP - Other", Num(1), Num(0))}
    \cup
    {OutflowFileRow("C", 1, TRUE, "Defect", TRUE, "RP - Other", q, v) :
        q \in {Text, Num(2)}, v \in {NaN, Num(1), Frac(1)}}

\* the concatenation of a sequence of sequences
RECURSIVE Flatten(_)
Flatten(seqs) ==
    IF seqs = <<>> THEN <<>> ELSE Head(seqs) \o Flatten(Tail(seqs))


\* the sum of a sequence of numbers
RECURSIVE SumSeq(_)
SumSeq(seq) ==
    IF seq = <<>> THEN 0 ELSE Head(seq) + SumSeq(Tail(seq))

\* the lists that list(nodes) can return for the set S: every order of its elements
Enumerations(S) ==
    {l \in [1..Cardinality(S) -> S] : \A i, j \in 1..Cardinality(S) : l[i] = l[j] => i = j}

\* the order of class names as strings
ClassNames == <<"C", "No-Child", "P">>
ClassRank(c) == CHOOSE i \in 1..Len(ClassNames) : ClassNames[i] = c

\* the keys of a groupby, sorted
SortedClasses(S) ==
    CHOOSE l \in Enumerations(S) :
        \A i, j \in 1..Cardinality(S) : i < j => ClassRank(l[i]) < ClassRank(l[j])

\* GDNProcessor.process_armt: 'No-Child' becomes the parent class; each program is
\* grouped by child_class ('first' of the other columns), AmazonGlobal before CrossListing
GDN_process_armt(t) ==
    LET remap(r) == IF r.child_class = "No-Child"
                    THEN [r EXCEPT !.child_class = r.parent_class] ELSE r
        rows == [i \in 1..Len(t) |-> remap(t[i])]
        grouped(program) ==
            LET part == SelectSeq(rows, LAMBDA r : r.program = program)
                keys == SortedClasses({part[i].child_class : i \in 1..Len(part)})
                group(k) == SelectSeq(part, LAMBDA r : r.child_class = k)
            IN  [i \in 1..Len(keys) |-> Head(group(keys[i]))]
    IN  grouped("AmazonGlobal") \o grouped("CrossListing")

\* GDNProcessor.create_nodes: the set of eligible child classes
GDN_Core == {"DE", "ANY", "Any"}
GDN_Cross == {"DE", "TR", "UK", "Any"}
GDN_Excluded_Sources ==
    {"JP", "FR", "IT", "ES", "CN", "US", "AU", "SG", "AE", "IN", "SA", "CA", "NL", "EG",
     "MX", "UK"}

Elems(seq) == {seq[i] : i \in 1..Len(seq)}

GDN_is_node(r) ==
    \/ \E j \in Elems(r.Source) : j \in GDN_Core
    \/ /\ r.program = "CrossListing"
       /\ \E k \in Elems(r.Destination), src \in Elems(r.Source) :
             k \in GDN_Cross /\ src \notin GDN_Excluded_Sources

GDN_node_set(a) == {a[i].child_class : i \in {n \in 1..Len(a) : GDN_is_node(a[n])}}

\* a Node Enumerator that appends to a list instead of adding to a set
GDN_create_nodes_as_list(a) ==
    LET hits == SelectSeq(a, GDN_is_node)
    IN  {[i \in 1..Len(hits) |-> hits[i].child_class]}

\* ... return list(nodes): some order of the set
GDN_create_nodes(a) == Enumerations(GDN_node_set(a))

\* IASProcessor.process_armt: AmazonGlobal rows explode on Source, CrossListing rows
\* on Destination and Source; then ARC and the two composite keys
IAS_process_armt(t) ==
    LET explode_source(r) == [j \in 1..Len(r.Source) |-> [r EXCEPT !.Source = r.Source[j]]]
        explode_destination(r) ==
            [j \in 1..Len(r.Destination) |-> [r EXCEPT !.Destination = r.Destination[j]]]
        some(r) == [r EXCEPT !.Destination =
                        IF Len(r.Destination) > 1 THEN "SOME" ELSE r.Destination[1]]
        explode(seq, F(_)) == Flatten([i \in 1..Len(seq) |-> F(seq[i])])
        core == explode(SelectSeq(t, LAMBDA r : r.program = "AmazonGlobal"),
                        LAMBDA r : explode_source(some(r)))
        cross == explode(explode(SelectSeq(t, LAMBDA r : r.program = "CrossListing"),
                                 explode_destination),
                         explode_source)
        keyed(r) == [program |-> r.program, parent_class |-> r.parent_class,
                     child_class |-> r.child_class, Source |-> r.Source,
                     Destination |-> r.Destination, parent_score |-> r.parent_score,
                     policy_name |-> r.policy_name,
                     combined_class |-> <<r.parent_class, r.child_class, <<r.Source>>>>,
                     combined_class2 |-> <<r.parent_class, r.child_class,
                                           <<r.Source, r.Destination>>>>]
        all == core \o cross
    IN  [i \in 1..Len(all) |-> keyed(all[i])]

\* IASProcessor.create_nodes
IAS_Core == {"FR", "IT", "ES", "ANY", "Any"}
IAS_CrossListing_Sources == {"FR", "IT", "ES", "MX"}

IAS_node_set(a) ==
    {a[i].combined_class : i \in {n \in 1..Len(a) :
        a[n].program = "AmazonGlobal" /\ a[n].Source \in {"FR", "IT", "ES"}}}
    \cup {a[i].combined_class2 : i \in {n \in 1..Len(a) :
        a[n].program = "CrossListing" /\ a[n].Source \in IAS_CrossListing_Sources}}

IAS_create_nodes(a) == Enumerations(IAS_node_set(a))

\* process_outflow: 'Resolved date' = date_to_string of the parsed date
resolved_cell(d) == date_to_string(IF d = 0 THEN NaN ELSE Ts(d))

\* the order of two 'Resolved date' strings: 'not Found!' is above every 'YYYY-MM-DD'
StrGreaterEq(x, y) ==
    \/ x.kind = "sentinel"
    \/ x.kind = "datestr" /\ y.kind = "datestr" /\ x.val >= y.val

\* sort_values(by='Resolved date', ascending=False)
sort_descending(rows) ==
    LET n == Len(rows)
        perm == CHOOSE q \in Enumerations(1..n) :
                    \A i, j \in 1..n : i < j =>
                        /\ StrGreaterEq(rows[q[i]].Resolved_date, rows[q[j]].Resolved_date)
                        /\ (rows[q[i]].Resolved_date = rows[q[j]].Resolved_date
                                => q[i] < q[j])
    IN  [i \in 1..n |-> rows[perm[i]]]

\* the groups and root causes that process_outflow removes
GDN_del_groups ==
    {"RP - AG Auditors", "RP - AG Auditors CN", "RP - AG Auditors ES", "RP - AG Auditors FR",
     "RP - AG Auditors IT"}
IAS_del_groups == {"RP - AG Auditors", "RP - AG Auditors CN", "RP - AG Auditors PL"}
del_causes == {"Duplicate", "Other", "Negative Class"}

\* a normalization that keeps the rows of every root cause
survives_every_cause(r, del_groups) ==
    /\ r.has_root_cause
    /\ r.has_details
    /\ r.assigned_to_group \notin del_groups

\* dropna(subset=['root_cause', 'root_cause_details']) and the two isin filters
survives(r, del_groups) ==
    /\ r.has_root_cause
    /\ r.has_details
    /\ r.assigned_to_group \notin del_groups
    /\ r.root_cause \notin del_causes

\* pd.to_numeric(quantity, errors='coerce').fillna(0)
quantity_of(x) == IF x.kind = "num" THEN x.val ELSE 0

\* pd.to_numeric(vendor_id, errors='coerce').fillna(0).astype(int): the fractional
\* part is cut off
vendor_id_of(x) == IF x.kind \in {"num", "frac"} THEN x.val ELSE 0

\* outflow['NC'] = outflow['quantity'] + outflow['vendor_id']
NC_of(r) == quantity_of(r.quantity) + vendor_id_of(r.vendor_id)

\* GDNProcessor.process_outflow: the filters, dates, the sort, the 'No-Child' rename
GDN_process_outflow(file) ==
    LET t == SelectSeq(file, LAMBDA r : survives(r, GDN_del_groups))
        dated == [i \in 1..Len(t) |->
                    [child_class |-> t[i].child_class, parent_class |-> t[i].parent_class,
                     Resolved_date |-> resolved_cell(t[i].resolved_date), NC |-> NC_of(t[i])]]
        sorted == sort_descending(dated)
    IN  [i \in 1..Len(sorted) |->
            [sorted[i] EXCEPT !.child_class =
                IF sorted[i].child_class = sorted[i].parent_class
                THEN "No-Child" ELSE sorted[i].child_class]]

\* IASProcessor.process_outflow: the filters, the rename, dates, the sort, the two
\* composite keys
IAS_process_outflow(file) ==
    LET t == SelectSeq(file, LAMBDA r : survives(r, IAS_del_groups))
        child(r) == IF r.child_class = r.parent_class THEN "No-Child" ELSE r.child_class
        dated == [i \in 1..Len(t) |->
                    [child_class |-> child(t[i]), parent_class |-> t[i].parent_class,
                     Resolved_date |-> resolved_cell(t[i].resolved_date), NC |-> NC_of(t[i]),
                     combined_class |-> <<t[i].parent_class, child(t[i]), <<t[i].source>>>>,
                     combined_class2 |-> <<t[i].parent_class, child(t[i]),
                                           t[i].resolution>>]]
    IN  sort_descending(dated)

\* groupby(key)['NC'].sum() for one key: the sum over the rows of the key
sum_NC(hits) == SumSeq([i \in 1..Len(hits) |-> hits[i].NC])

\* drop_duplicates(subset=[key]) and the dict of a column: the first of the rows
\* with the key
armt_lookup(hits) ==
    IF hits = <<>> THEN NoArmt
    ELSE [hit |-> TRUE, parent_score |-> Head(hits).parent_score,
          policy_name |-> Head(hits).policy_name, Destination |-> Text]

\* the Outflow lookups of create_cadence: 'Resolved date' of the first of the rows
\* with the key, NC from the groupby sum
outflow_lookup(hits) ==
    IF hits = <<>> THEN NoOutflow
    ELSE [hit |-> TRUE, NC |-> sum_NC(hits), Resolved_date |-> Head(hits).Resolved_date]

----------------------------------------------------------------------------
(* process() on whole tables: the statements of process(), its try/except,    *)
(* and a second execution on the same files.  The Master file has no rows.    *)

\* the files: every ARMT table without Outflow, and every Outflow table for one
\* ARMT row that makes a node in either processor
RunInit ==
    /\ proc \in {"GDN", "IAS"}
    /\ pc = "idle"
    /\ run = 1
    /\ armt = NoArmt
    /\ armt2 = NoArmt
    /\ outflow = NoOutflow
    /\ outflow2 = NoOutflow
    /\ master = NoMaster
    /\ master2 = NoMaster
    /\ Cadence = EmptyRow
    /\ \/ /\ files \in [armt : SeqsUpTo(ArmtFileRows, MaxArmtRows), outflow : {<<>>}]
       \/ /\ files \in [armt : {<<r>> : r \in {x \in ArmtFileRows :
                                                   /\ x.program = "AmazonGlobal"
                                                   /\ Len(x.Source) > 1}},
                        outflow : SeqsUpTo(OutflowFileRows, MaxOutflowRows) \ {<<>>}]
    /\ step = "start"
    /\ exec = 1
    /\ first = NoResult
    /\ armt_df = <<>>
    /\ outflow_df = <<>>
    /\ nodes = <<>>
    /\ Cadence_df = <<>>
    /\ master_df = {}
    /\ executed = {}
    /\ result = NoResult

\* the statements inside the try block
TrySteps ==
    {"read", "process_armt", "process_outflow", "create_nodes", "check_nodes",
     "apply_master_lookups", "merge_columns", "update_cadence_score",
     "calculate_due_dates", "finalize_cadence", "return"}

\* the stages after the Node Enumerator
LaterStages ==
    {"create_cadence", "apply_master_lookups", "merge_columns", "update_cadence_score",
     "calculate_due_dates", "finalize_cadence"}

\* self.clear_logs() and the two log calls before the try
process_start ==
    /\ step = "start"
    /\ step' = "read"
    /\ UNCHANGED <<files, master_df, exec, first, armt_df, outflow_df, nodes, Cadence_df, executed,
                   result>>
    /\ UNCHANGED rowvars

\* one of those log calls raises (print or the status callback): nothing catches it
raise_before_try ==
    /\ step = "start"
    /\ step' = "end"
    /\ result' = [NoResult EXCEPT !.raised = TRUE]
    /\ UNCHANGED <<files, master_df, exec, first, armt_df, outflow_df, nodes, Cadence_df, executed>>
    /\ UNCHANGED rowvars

\* the columns of the Master file that the lookups of the processor read
MasterFileColumns(p) ==
    IF p = "GDN"
    THEN {"child_class", "Cadence Score", "Due Date", "NC Count"}
    ELSE {"Parent Classes", "Child Classes", "Source", "ARC", "Cadence Score", "Due Date",
          "NC Count"}

\* pd.read_excel of the three files
process_read ==
    /\ step = "read"
    /\ armt_df' = files.armt
    /\ outflow_df' = files.outflow
    /\ master_df' = MasterFileColumns(proc)
    /\ step' = "process_armt"
    /\ UNCHANGED <<files, exec, first, nodes, Cadence_df, executed, result>>
    /\ UNCHANGED rowvars

\* armt = self.process_armt(armt)
process_armt ==
    /\ step = "process_armt"
    /\ armt_df' = IF proc = "GDN" THEN GDN_process_armt(armt_df) ELSE IAS_process_armt(armt_df)
    /\ executed' = executed \cup {"process_armt"}
    /\ step' = "process_outflow"
    /\ UNCHANGED <<files, master_df, exec, first, outflow_df, nodes, Cadence_df, result>>
    /\ UNCHANGED rowvars

\* outflow, outflow1[, outflow2] = self.process_outflow(outflow)
process_outflow ==
    /\ step = "process_outflow"
    /\ outflow_df' = IF proc = "GDN" THEN GDN_process_outflow(outflow_df)
                     ELSE IAS_process_outflow(outflow_df)
    /\ executed' = executed \cup {"process_outflow"}
    /\ step' = "create_nodes"
    /\ UNCHANGED <<files, master_df, exec, first, armt_df, nodes, Cadence_df, result>>
    /\ UNCHANGED rowvars

\* nodes = self.create_nodes(armt)
create_nodes ==
    /\ step = "create_nodes"
    /\ nodes' \in (IF proc = "GDN" THEN GDN_create_nodes(armt_df) ELSE IAS_create_nodes(armt_df))
    /\ executed' = executed \cup {"create_nodes"}
    /\ step' = "check_nodes"
    /\ UNCHANGED <<files, master_df, exec, first, armt_df, outflow_df, Cadence_df, result>>
    /\ UNCHANGED rowvars

\* if len(nodes) == 0: log and return {'success': False, 'error': 'No valid ... nodes ...'}
no_nodes ==
    /\ step = "check_nodes"
    /\ Len(nodes) = 0
    /\ result' = [NoResult EXCEPT !.returned = TRUE,
                                  !.error = "No valid nodes found in ARMT data"]
    /\ step' = "end"
    /\ UNCHANGED <<files, master_df, exec, first, armt_df, outflow_df, nodes, Cadence_df, executed>>
    /\ UNCHANGED rowvars

\* a Cadence Builder that looks the Resolved Date up under the parent class
GDN_cadence_row_date_by_parent(k, a, o) ==
    LET row == GDN_create_cadence(armt_lookup(SelectSeq(a, LAMBDA r : r.child_class = k)),
                                  outflow_lookup(SelectSeq(o, LAMBDA r : r.child_class = k)))
        by_parent == outflow_lookup(SelectSeq(o, LAMBDA r : r.parent_class = k))
    IN  [row EXCEPT !.Resolved_Date =
            IF by_parent.hit THEN date_to_string(by_parent.Resolved_date) ELSE NOT_FOUND]

\* the row of create_cadence for one node key
GDN_cadence_row(k, a, o) ==
    GDN_create_cadence(armt_lookup(SelectSeq(a, LAMBDA r : r.child_class = k)),
                       outflow_lookup(SelectSeq(o, LAMBDA r : r.child_class = k)))

IAS_cadence_row(k, a, o) ==
    IAS_create_cadence(armt_lookup(SelectSeq(a, LAMBDA r : r.combined_class = k)),
                       armt_lookup(SelectSeq(a, LAMBDA r : r.combined_class2 = k)),
                       outflow_lookup(SelectSeq(o, LAMBDA r : r.combined_class = k)),
                       outflow_lookup(SelectSeq(o, LAMBDA r : r.combined_class2 = k)))

\* Cadence = self.create_cadence(nodes, armt, outflow, ...): one row per element of nodes
process_create_cadence ==
    /\ step = "check_nodes"
    /\ Len(nodes) # 0
    /\ Cadence_df' = [i \in 1..Len(nodes) |->
                        [key |-> nodes[i],
                         row |-> IF proc = "GDN"
                                 THEN GDN_cadence_row(nodes[i], armt_df, outflow_df)
                                 ELSE IAS_cadence_row(nodes[i], armt_df, outflow_df)]]
    /\ executed' = executed \cup {"create_cadence"}
    /\ step' = "apply_master_lookups"
    /\ UNCHANGED <<files, master_df, exec, first, armt_df, outflow_df, nodes, result>>
    /\ UNCHANGED rowvars

\* one row through a stage after create_cadence (the Master file has no rows)
stage_row(stage, r) ==
    CASE stage = "apply_master_lookups" ->
            IF proc = "GDN" THEN GDN_apply_master_lookups(r, NoMaster)
            ELSE IAS_apply_master_lookups(r, NoMaster, NoMaster)
      [] stage = "merge_columns" -> IAS_merge_columns(r)
      [] stage = "update_cadence_score" ->
            IF proc = "GDN" THEN GDN_update_cadence_score(r) ELSE IAS_update_cadence_score(r)
      [] stage = "calculate_due_dates" ->
            IF proc = "GDN" THEN GDN_calculate_due_dates(r) ELSE IAS_calculate_due_dates(r)
      [] stage = "finalize_cadence" ->
            IF proc = "GDN" THEN GDN_finalize_cadence(r) ELSE IAS_finalize_cadence(r)

\* a stage applied to the DataFrame: its columns are computed row by row
EachRow(df, stage) ==
    [i \in 1..Len(df) |-> [key |-> df[i].key, row |-> stage_row(stage, df[i].row)]]

\* GDN apply_master_lookups: 'master' is only read (drop_duplicates and set_index
\* make a new DataFrame) and is returned as it came
GDN_master_columns(columns) == columns

\* IAS apply_master_lookups: master['Combined Classes'] = ... and
\* master['Combined Classes2'] = ... assign two columns to the DataFrame that was
\* passed in, which is then returned
IAS_master_columns(columns) == columns \cup {"Combined Classes", "Combined Classes2"}

\* Cadence, master = self.apply_master_lookups(Cadence, master)
process_apply_master_lookups ==
    /\ step = "apply_master_lookups"
    /\ Cadence_df' = EachRow(Cadence_df, "apply_master_lookups")
    /\ master_df' = IF proc = "IAS" THEN IAS_master_columns(master_df)
                                    ELSE GDN_master_columns(master_df)
    /\ executed' = executed \cup {"apply_master_lookups"}
    /\ step' = IF proc = "IAS" THEN "merge_columns" ELSE "update_cadence_score"
    /\ UNCHANGED <<files, exec, first, armt_df, outflow_df, nodes, result>>
    /\ UNCHANGED rowvars

\* Cadence = self.merge_columns(Cadence)   (IAS only)
process_merge_columns ==
    /\ step = "merge_columns"
    /\ Cadence_df' = EachRow(Cadence_df, "merge_columns")
    /\ executed' = executed \cup {"merge_columns"}
    /\ step' = "update_cadence_score"
    /\ UNCHANGED <<files, master_df, exec, first, armt_df, outflow_df, nodes, result>>
    /\ UNCHANGED rowvars

\* Cadence = self.update_cadence_score(Cadence)
process_update_cadence_score ==
    /\ step = "update_cadence_score"
    /\ Cadence_df' = EachRow(Cadence_df, "update_cadence_score")
    /\ executed' = executed \cup {"update_cadence_score"}
    /\ step' = "calculate_due_dates"
    /\ UNCHANGED <<files, master_df, exec, first, armt_df, outflow_df, nodes, result>>
    /\ UNCHANGED rowvars

\* Cadence = self.calculate_due_dates(Cadence)
process_calculate_due_dates ==
    /\ step = "calculate_due_dates"
    /\ Cadence_df' = EachRow(Cadence_df, "calculate_due_dates")
    /\ executed' = executed \cup {"calculate_due_dates"}
    /\ step' = "finalize_cadence"
    /\ UNCHANGED <<files, master_df, exec, first, armt_df, outflow_df, nodes, result>>
    /\ UNCHANGED rowvars

\* Cadence = self.finalize_cadence(Cadence)
process_finalize_cadence ==
    /\ step = "finalize_cadence"
    /\ Cadence_df' = EachRow(Cadence_df, "finalize_cadence")
    /\ executed' = executed \cup {"finalize_cadence"}
    /\ step' = "return"
    /\ UNCHANGED <<files, master_df, exec, first, armt_df, outflow_df, nodes, result>>
    /\ UNCHANGED rowvars

\* the closing log calls and return {'cadence': Cadence, ..., 'success': True, ...}
process_return ==
    /\ step = "return"
    /\ result' = [NoResult EXCEPT !.returned = TRUE, !.success = TRUE,
                                  !.has_cadence = TRUE, !.cadence = Cadence_df,
                                  !.master = master_df]
    /\ step' = "end"
    /\ UNCHANGED <<files, master_df, exec, first, armt_df, outflow_df, nodes, Cadence_df, executed>>
    /\ UNCHANGED rowvars

\* a statement of the try block raises: a stage, pd.read_excel, or a log call.
\* The except block reads none of the DataFrames of the try block.
raise_in_try ==
    /\ step \in TrySteps
    /\ step' = "except"
    /\ armt_df' = <<>>
    /\ outflow_df' = <<>>
    /\ Cadence_df' = <<>>
    /\ master_df' = {}
    /\ UNCHANGED <<files, exec, first, nodes, executed, result>>
    /\ UNCHANGED rowvars

\* except Exception as e: two log calls, return {'success': False, 'error': str(e), ...}
except_returns ==
    /\ step = "except"
    /\ result' = [NoResult EXCEPT !.returned = TRUE, !.error = "str(e)"]
    /\ step' = "end"
    /\ UNCHANGED <<files, master_df, exec, first, armt_df, outflow_df, nodes, Cadence_df, executed>>
    /\ UNCHANGED rowvars

\* a log call of the except block raises, or the exception was not an Exception
\* (KeyboardInterrupt, SystemExit): it leaves process()
except_raises ==
    /\ step = "except"
    /\ result' = [NoResult EXCEPT !.raised = TRUE]
    /\ step' = "end"
    /\ UNCHANGED <<files, master_df, exec, first, armt_df, outflow_df, nodes, Cadence_df, executed>>
    /\ UNCHANGED rowvars

\* process() is called again with the same files_dict
process_again ==
    /\ step = "end"
    /\ exec < MaxExecutions
    /\ exec' = exec + 1
    /\ first' = IF exec = 1 THEN result ELSE first
    /\ step' = "start"
    /\ armt_df' = <<>>
    /\ outflow_df' = <<>>
    /\ nodes' = <<>>
    /\ Cadence_df' = <<>>
    /\ master_df' = {}
    /\ executed' = {}
    /\ result' = NoResult
    /\ UNCHANGED files
    /\ UNCHANGED rowvars

RunNext ==
    \/ process_start
    \/ raise_before_try
    \/ process_read
    \/ process_armt
    \/ process_outflow
    \/ create_nodes
    \/ no_nodes
    \/ process_create_cadence
    \/ process_apply_master_lookups
    \/ process_merge_columns
    \/ process_update_cadence_score
    \/ process_calculate_due_dates
    \/ process_finalize_cadence
    \/ process_return
    \/ raise_in_try
    \/ except_returns
    \/ except_raises
    \/ process_again

RunSpec == RunInit /\ [][RunNext]_vars

----------------------------------------------------------------------------
(* process() on ARMT files that vary the source and destination lists *)

\* source_country cells: a core source of GDN, an excluded source followed by one
\* that is not, a core source of IAS that create_nodes does not name, an IAS
\* source, a source of neither
NodeSourceCells == {<<"DE">>, <<"FR", "TR">>, <<"ANY">>, <<"FR">>, <<"JP">>}

\* include_destination_country cells: inside and outside GDN_Cross
NodeDestinationCells == {<<"UK">>, <<"US">>}

NodeArmtRows ==
    {[program |-> p, parent_class |-> "P", child_class |-> "C", Source |-> src,
      Destination |-> dst, parent_score |-> Num(2), policy_name |-> Text] :
        p \in {"AmazonGlobal", "CrossListing"}, src \in NodeSourceCells,
        dst \in NodeDestinationCells}

NodeInit ==
    /\ proc \in {"GDN", "IAS"}
    /\ pc = "idle"
    /\ run = 1
    /\ armt = NoArmt
    /\ armt2 = NoArmt
    /\ outflow = NoOutflow
    /\ outflow2 = NoOutflow
    /\ master = NoMaster
    /\ master2 = NoMaster
    /\ Cadence = EmptyRow
    /\ files \in [armt : SeqsUpTo(NodeArmtRows, MaxNodeRows), outflow : {<<>>}]
    /\ step = "start"
    /\ exec = 1
    /\ first = NoResult
    /\ armt_df = <<>>
    /\ outflow_df = <<>>
    /\ nodes = <<>>
    /\ Cadence_df = <<>>
    /\ master_df = {}
    /\ executed = {}
    /\ result = NoResult

NodeSpec == NodeInit /\ [][RunNext]_vars

----------------------------------------------------------------------------
(* process() on Outflow files that vary the filtered columns and the numbers *)

\* one ARMT row that makes a node in either processor with every Outflow file, and
\* the empty files
OutflowInit ==
    /\ proc \in {"GDN", "IAS"}
    /\ pc = "idle"
    /\ run = 1
    /\ armt = NoArmt
    /\ armt2 = NoArmt
    /\ outflow = NoOutflow
    /\ outflow2 = NoOutflow
    /\ master = NoMaster
    /\ master2 = NoMaster
    /\ Cadence = EmptyRow
    /\ \/ files \in [armt : {<<r>> : r \in {x \in ArmtFileRows :
                                             /\ x.program = "AmazonGlobal"
                                             /\ x.child_class = "C"
                                             /\ Len(x.Source) > 1}},
                     outflow : SeqsUpTo(NCOutflowRows, MaxNCRows)]
       \/ files = [armt |-> <<>>, outflow |-> <<>>]
    /\ step = "start"
    /\ exec = 1
    /\ first = NoResult
    /\ armt_df = <<>>
    /\ outflow_df = <<>>
    /\ nodes = <<>>
    /\ Cadence_df = <<>>
    /\ master_df = {}
    /\ executed = {}
    /\ result = NoResult

OutflowSpec == OutflowInit /\ [][RunNext]_vars

----------------------------------------------------------------------------
(* The rule table of the specification (section 4.5), used to state the claims *)

\* the step-down threshold K of a tier
Threshold(T) == IF T \in {30, 60, 90} THEN 10 ELSE 15

\* the neighbouring tiers in the order 30 < 60 < 90 < 180 < 365
TierIndex(T) == CHOOSE i \in 1..Len(Tiers) : Tiers[i] = T
TierBelow(T) == IF TierIndex(T) = 1 THEN T ELSE Tiers[TierIndex(T) - 1]
TierAbove(T) == IF TierIndex(T) = Len(Tiers) THEN T ELSE Tiers[TierIndex(T) + 1]

\* the 'Promote' column of the table, for risk tiers 1..5
PromoteColumn(T, risk) ==
    CASE T = 30 -> 60
      [] T = 60 -> 90
      [] T = 90 -> IF risk \in {1, 2, 3} THEN 90 ELSE 180
      [] T = 180 -> IF risk = 4 THEN 180 ELSE 365
      [] T = 365 -> 365

\* the whole table: demote / hold / promote
RuleTable(T, nc, prev_nc, risk) ==
    IF nc >= Threshold(T) THEN TierBelow(T)
    ELSE IF prev_nc.has /\ prev_nc.v >= Threshold(T) THEN T
    ELSE PromoteColumn(T, risk)

\* the row's numeric readings, as update_cadence_score takes them
PrevTier == safe_to_numeric(Cadence.Previous_Cadence)
CurNC == safe_to_numeric(Cadence.NC_Count)
PrevNC == safe_to_numeric(Cadence.Previous_NC)
KnownTier == PrevTier.has /\ PrevTier.v \in TierSet

\* the score-transition stage has run (and nothing after it yet)
AfterTransition == pc = "calculate_due_dates"
\* the score-transition stage or a later stage has run
FromTransitionOn == pc \in {"calculate_due_dates", "finalize_cadence", "done"}

----------------------------------------------------------------------------
(* C1: the Cadence Score is one of 30, 60, 90, 180, 365 at the end of the      *)
(* score-transition stage and in every later stage, for every input.           *)
(* Violated: the fallback of calculate_due_dates copies any numeric Previous   *)
(* Cadence of the Master (45 here) into the Cadence Score.                     *)
C1_ScoreDomain ==
    FromTransitionOn => Cadence.Cadence_Score \in TierSet

(* C2: with a known previous tier T, a present NC and a risk tier in 1..5,     *)
(* update_cadence_score yields exactly the score of the rule table, and the    *)
(* IAS and the GDN rules give the same score on the row.                       *)
C2_RuleTable ==
    [][ (pc = "update_cadence_score" /\ KnownTier /\ CurNC.has
            /\ Cadence.risk_score \in 1..5)
        => /\ Cadence'.Cadence_Score
                = RuleTable(PrevTier.v, CurNC.v, PrevNC, Cadence.risk_score)
           /\ GDN_update_cadence_score(Cadence) = IAS_update_cadence_score(Cadence) ]_vars

\* C2's case: previous tier 90, risk 5, NC 0, previous NC 0 has given 180
C2_Witness ==
    /\ AfterTransition
    /\ Cadence.Previous_Cadence = NumStr(90)
    /\ Cadence.risk_score = 5
    /\ Cadence.NC_Count = NumStr(0)
    /\ Cadence.Previous_NC = NumStr(0)
    /\ Cadence.Cadence_Score = 180

(* C3: with a known previous tier T and a present NC, for every risk score in  *)
(* 0..5 and every previous NC, the score after the transition is T, the tier   *)
(* below T or the tier above T.                                                *)
(* Violated: risk 0, T = 90, NC < 10: no rule of tier 90 names risk 0, so the  *)
(* risk-derived score 30 stays, two tiers below 90.                            *)
C3_OneTierStep ==
    (AfterTransition /\ KnownTier /\ CurNC.has /\ Cadence.risk_score \in 0..5)
    => Cadence.Cadence_Score \in {PrevTier.v, TierBelow(PrevTier.v), TierAbove(PrevTier.v)}

(* C4 as stated: run 2, given the same ARMT and Outflow (so the same NC, on the  *)
(* same side of every threshold) and run 1's output as Master, ends with run    *)
(* 1's Cadence Score, for every node.                                           *)
(* Violated: risk 2, NC 0, no Master row in run 1 gives 60; run 2 reads tier    *)
(* 60, NC 0, previous NC 0 and promotes to 90.                                  *)
PrevRunScore ==
    IF master.hit THEN master.Cadence_Score.val ELSE master2.Cadence_Score.val

ArmtRisk ==
    IF proc = "GDN"
    THEN GDN_create_cadence(armt, outflow).risk_score
    ELSE IAS_create_cadence(armt, armt2, outflow, outflow2).risk_score

\* the nodes whose run-1 score S1 the rule table maps to itself
SteadyState ==
    \/ ~CurNC.has
    \/ /\ CurNC.has
       /\ PrevRunScore \in TierSet
       /\ \/ CurNC.v >= Threshold(PrevRunScore) /\ PrevRunScore = 30
          \/ /\ CurNC.v < Threshold(PrevRunScore)
             /\ \/ PrevRunScore = 365
                \/ PrevRunScore = 180 /\ ArmtRisk = 4
                \/ PrevRunScore = 90 /\ ArmtRisk \in {1, 2, 3}

C6_AbsentNCPromotes ==
    (AfterTransition /\ KnownTier /\ ~CurNC.has /\ Lt(PrevNC, Threshold(PrevTier.v))
        /\ Cadence.risk_score \in 1..5)
    => Cadence.Cadence_Score = PromoteColumn(PrevTier.v, Cadence.risk_score)

\* update_cadence_score of the running processor
UpdateOf(row) ==
    IF proc = "GDN" THEN GDN_update_cadence_score(row) ELSE IAS_update_cadence_score(row)

(* C6 amended: with a known tier T, (a) a current NC present and below T's      *)
(* threshold with the previous NC absent gives the score that the stage gives   *)
(* when both are below the threshold; (b) a current NC absent with the previous *)
(* NC present and below the threshold fires no rule: the stage leaves the       *)
(* risk-derived Cadence Score unchanged.                                        *)
C6_AbsentPrevNCPromotes ==
    [][ (pc = "update_cadence_score" /\ KnownTier)
        => /\ (CurNC.has /\ CurNC.v < Threshold(PrevTier.v) /\ ~PrevNC.has)
                => Cadence'.Cadence_Score
                    = UpdateOf([Cadence EXCEPT !.Previous_NC = Cadence.NC_Count]).Cadence_Score
           /\ (~CurNC.has /\ Lt(PrevNC, Threshold(PrevTier.v)))
                => Cadence'.Cadence_Score = Cadence.Cadence_Score ]_vars

\* C6's case: NC absent, previous NC below the threshold, and the row was not promoted
C6_Witness ==
    /\ AfterTransition
    /\ Cadence.Previous_Cadence = NumStr(30)
    /\ Cadence.NC_Count = NOT_FOUND
    /\ Cadence.Previous_NC = NumStr(9)
    /\ Cadence.risk_score = 1
    /\ Cadence.Cadence_Score = 30

\* the promote case of the two highest promoting tiers
PromoteCase ==
    /\ AfterTransition
    /\ KnownTier
    /\ PrevTier.v \in {90, 180}
    /\ CurNC.has
    /\ CurNC.v < Threshold(PrevTier.v)
    /\ ~Ge(PrevNC, Threshold(PrevTier.v))

(* C7 as stated: in the promote case at tier 180 (and at tier 90), risk tiers   *)
(* 1, 2, 3 hold at the tier and only risk tiers 4 and 5 are promoted further.   *)
(* Violated: tier 180, risk 1, NC 0: the score becomes 365.                     *)
C7_LowRiskHolds ==
    PromoteCase
    => /\ Cadence.risk_score \in {1, 2, 3} => Cadence.Cadence_Score = PrevTier.v
       /\ Cadence.risk_score \in {4, 5} => Cadence.Cadence_Score = TierAbove(PrevTier.v)

(* C7 amended: in the promote case at tier 180 only risk tier 4 holds at 180,   *)
(* risk tiers 1, 2, 3 and 5 are promoted to 365; at tier 90 risk tiers 1, 2, 3  *)
(* hold at 90 and risk tiers 4 and 5 are promoted to 180.                       *)
C7_Risk4Holds ==
    PromoteCase
    => /\ (PrevTier.v = 180 /\ Cadence.risk_score = 4) => Cadence.Cadence_Score = 180
       /\ (PrevTier.v = 180 /\ Cadence.risk_score \in {1, 2, 3, 5})
            => Cadence.Cadence_Score = 365
       /\ (PrevTier.v = 90 /\ Cadence.risk_score \in {1, 2, 3}) => Cadence.Cadence_Score = 90
       /\ (PrevTier.v = 90 /\ Cadence.risk_score \in {4, 5}) => Cadence.Cadence_Score = 180

\* C7's case: tier 180, risk 2, NC 14, no previous NC: promoted to 365
C7_Witness ==
    /\ PromoteCase
    /\ PrevTier.v = 180
    /\ Cadence.risk_score = 2
    /\ CurNC.v = 14
    /\ ~PrevNC.has
    /\ Cadence.Cadence_Score = 365

(* C8: when the Previous Cadence is not found, not numeric or a number outside  *)
(* the five tiers, update_cadence_score leaves the Cadence Score as the Cadence *)
(* Builder set it from the risk score, for every NC, previous NC and risk.      *)
C8_NoTierNoTransition ==
    [][ (pc = "update_cadence_score" /\ ~KnownTier)
        => /\ Cadence'.Cadence_Score = Cadence.Cadence_Score
           /\ Cadence'.Cadence_Score = risk_to_score(Cadence.risk_score) ]_vars

\* C8's case: Previous Cadence 45, NC 15, previous NC 15, risk 3: the score is still 90
C8_Witness ==
    /\ AfterTransition
    /\ Cadence.Previous_Cadence = NumStr(45)
    /\ Cadence.NC_Count = NumStr(15)
    /\ Cadence.Previous_NC = NumStr(15)
    /\ Cadence.risk_score = 3
    /\ Cadence.Cadence_Score = 90

(* C9: in the finalized output a row whose Due Date and Resolved Date are both  *)
(* not the sentinel has Due Date >= Resolved Date, whether the due date was     *)
(* computed from the Resolved Date or carried forward from the Master.          *)
C9_DueNotBeforeResolved ==
    (pc = "done" /\ Cadence.Due_Date # NOT_FOUND /\ Cadence.Resolved_Date # NOT_FOUND)
    => /\ Cadence.Due_Date.kind = "datestr"
       /\ Cadence.Resolved_Date.kind = "datestr"
       /\ Cadence.Due_Date.val >= Cadence.Resolved_Date.val

\* C9's case: an output row with a Resolved Date, a Master due date of an earlier day,
\* and a due date computed from the Resolved Date
C9_Witness ==
    /\ pc = "done"
    /\ Cadence.Resolved_Date = DateStr(1)
    /\ Cadence.Previous_Due_Date = DateStr(0)
    /\ Cadence.Due_Date = DateStr(1 + 365)

\* the offset table of section 4.6
Offset(nc, score) ==
    CASE score = 30 -> 30
      [] score = 60 -> IF nc < 10 THEN 60 ELSE 30
      [] score = 90 -> IF nc < 10 THEN 90 ELSE 60
      [] score = 180 -> IF nc < 15 THEN 180 ELSE 90
      [] score = 365 -> IF nc < 15 THEN 365 ELSE 180

(* C10: a row with a known NC and a known Resolved Date gets Due Date =         *)
(* Resolved Date + the offset that (NC, post-transition Cadence Score) selects  *)
(* in the table; the sentinel if no (NC range, score) combination matches.      *)
C10_DueDateTable ==
    (pc \in {"finalize_cadence", "done"} /\ CurNC.has
        /\ ~is_not_found(Cadence.Resolved_Date))
    => Cadence.Due_Date =
          IF Cadence.Cadence_Score \in TierSet
          THEN DateStr(Cadence.Resolved_Date.val
                        + Offset(CurNC.v, Cadence.Cadence_Score))
          ELSE NOT_FOUND

\* C10's case: NC 10 at score 90 takes the reduced offset of 60 days
C10_Witness ==
    /\ pc = "done"
    /\ Cadence.NC_Count = NumStr(10)
    /\ Cadence.Cadence_Score = 90
    /\ Cadence.Resolved_Date = DateStr(1)
    /\ Cadence.Due_Date = DateStr(1 + 60)

\* the four range rules applied one after the other in the order q
DaysInOrder(q, nc, cad) ==
    days_block(q[4], nc, cad,
        days_block(q[3], nc, cad, days_block(q[2], nc, cad, days_block(q[1], nc, cad, NoDays))))

\* C25: in the due-date calculation the four NC-range rules are applied
\* independently, and for every NC and every Cadence Score in {30,60,90,180,365} at
\* most one of them yields an offset, so the offset the code selects is the one every
\* order of evaluation selects
C25_OneRangeRule ==
    (pc = "calculate_due_dates" /\ safe_to_numeric(Cadence.NC_Count).has
        /\ Cadence.Cadence_Score \in TierSet) =>
        LET nc == safe_to_numeric(Cadence.NC_Count).v
            cad == Cadence.Cadence_Score
        IN  /\ Cardinality({k \in 1..4 : days_block(k, nc, cad, NoDays).has}) <= 1
            /\ \A q \in Enumerations(1..4) :
                  /\ DaysInOrder(q, nc, cad) = GDN_days(nc, cad)
                  /\ DaysInOrder(q, nc, cad) = IAS_days(nc, cad)

\* NC = 14 matches '< 15' and '>= 10'; with the score 90 only '>= 10' has an entry,
\* and the due date is the resolved date + 60
C25_Witness ==
    /\ pc = "finalize_cadence"
    /\ Cadence.NC_Count = NumStr(14)
    /\ Cadence.Cadence_Score = 90
    /\ Cadence.Resolved_Date = DateStr(1)
    /\ Cadence.Due_Date = DateStr(61)

----------------------------------------------------------------------------
(* Claims about the Cadence Builder's lookups (checked under LookupSpec) *)

\* the first-seen ARMT row that matches the node key (IAS: through either key)
NodeArmt == IF armt.hit THEN armt ELSE armt2

\* the risk score the claims expect of the node: its parent_score, 1 when that is
\* missing or not a number
ExpectedRisk ==
    LET numeric == safe_to_numeric(NodeArmt.parent_score)
    IN  IF NodeArmt.hit /\ numeric.has THEN numeric.v ELSE 1

\* the same after finalize_cadence's remap of 0 to 1
ExpectedOutputRisk == IF ExpectedRisk = 0 THEN 1 ELSE ExpectedRisk

\* the node key matches no Outflow row and no Master row
NoOutflowNoMaster == ~outflow.hit /\ ~outflow2.hit /\ ~master.hit /\ ~master2.hit

(* C13: a node without a matching Outflow row and without a matching Master row  *)
(* ends with risk score = its ARMT parent_score (1 if missing; a 0 is shown as   *)
(* 1), NC Count and Due Date 'not Found!', and Cadence Score = the risk table    *)
(* applied to that parent_score.                                                 *)
(* Violated: an IAS CrossListing node matches ARMT only through combined_class2, *)
(* and 'risk score' is read from the combined_class lookup alone: parent_score 2 *)
(* gives risk score 1 and Cadence Score 30, not 2 and 60.                        *)
C13_UnmatchedNode ==
    (pc = "done" /\ run = 1 /\ NoOutflowNoMaster)
    => /\ Cadence.risk_score = ExpectedOutputRisk
       /\ Cadence.NC_Count = NOT_FOUND
       /\ Cadence.Due_Date = NOT_FOUND
       /\ Cadence.Cadence_Score = risk_to_score(ExpectedRisk)

(* C14: every finalized row has risk score >= 1, for every parent_score cell of  *)
(* ARMT.                                                                         *)
(* Violated: finalize_cadence remaps only the value 0; parent_score -1 is kept   *)
(* by create_cadence and reaches the output as risk score -1.                    *)
C14_RiskAtLeastOne ==
    pc = "done" => Cadence.risk_score >= 1

(* C17: in the finalized output JSR = 'Yes' exactly when the row's Policies      *)
(* (IAS: after merge_columns) contains '_JSR' or '-JSR'.                         *)
(* Violated: IAS computes JSR in create_cadence from the primary Policies; for a *)
(* node found through the secondary key that is 'not Found!', so JSR = 'No',     *)
(* and merge_columns then copies Policies2 (with '_JSR') into Policies.          *)
C17_JSRMatchesPolicies ==
    pc = "done" => (Cadence.JSR = "Yes" <=> contains_JSR(Cadence.Policies))

(* C19: for every IAS node, also one that matches ARMT only through the          *)
(* secondary key, the risk score is the parent_score of the first-seen matching  *)
(* ARMT row (1 when absent; 0 shown as 1 in the output) and the initial Cadence  *)
(* Score is the risk table's value for it.                                       *)
(* Violated: for a secondary-key node 'risk score' and 'Cadence Score' come from *)
(* the missed primary lookup (1 and 30); 'risk score2' and 'Cadence Score2' hold *)
(* the matching row's values and are dropped, merge_columns has no pair for them.*)
C19_RiskFromMatchingRow ==
    proc = "IAS"
    => /\ pc = "apply_master_lookups"
            => /\ Cadence.risk_score = ExpectedRisk
               /\ Cadence.Cadence_Score = risk_to_score(ExpectedRisk)
       /\ pc = "done" => Cadence.risk_score = ExpectedOutputRisk

----------------------------------------------------------------------------
(* Claims about process() on whole tables (checked under RunSpec) *)

\* no two rows of a Cadence table have the same node key
UniqueKeys(df) == \A i, j \in 1..Len(df) : df[i].key = df[j].key => i = j

\* C11: key uniqueness -- for every ARMT input (repeated keys, cells that explode to
\* the same key, keys under both programs) the Cadence table has at most one row per
\* node key, at every stage from the Cadence Builder to the returned output
C11_KeyUniqueness == UniqueKeys(Cadence_df) /\ UniqueKeys(result.cadence)

\* a GDN run returned a table although two rows of the normalized ARMT (one per
\* program) are eligible with the same child_class
C11_Witness ==
    /\ proc = "GDN"
    /\ result.success
    /\ \E i, j \in 1..Len(armt_df) :
          /\ i < j
          /\ GDN_is_node(armt_df[i])
          /\ GDN_is_node(armt_df[j])
          /\ armt_df[i].child_class = armt_df[j].child_class
          /\ \E n \in 1..Len(result.cadence) : result.cadence[n].key = armt_df[i].child_class

\* C12: determinism -- two executions of process() on identical tables return
\* identical Cadence tables: the same rows, the same values, the same row order
C12_Determinism ==
    (exec > 1 /\ first.success /\ result.success) => result.cadence = first.cadence

\* C15: when the Node Enumerator returns an empty node set, process() stops without
\* raising: it returns success = false with the node-specific error and no cadence
\* table, and none of the later stages is executed
C15_EmptyNodeSet ==
    (step = "end" /\ "create_nodes" \in executed /\ Len(nodes) = 0) =>
        /\ result.returned
        /\ ~result.raised
        /\ ~result.success
        /\ result.error = "No valid nodes found in ARMT data"
        /\ ~result.has_cadence
        /\ executed \cap LaterStages = {}

\* C16: process() never propagates an exception to its caller: whatever step raises,
\* the call returns a result with success = false and an error text
C16_NeverPropagates ==
    step = "end" =>
        /\ result.returned
        /\ ~result.raised
        /\ (~result.success => result.error # "")

\* the normalized Outflow rows of a node key
OutflowOfKey(k) ==
    SelectSeq(outflow_df, LAMBDA r : IF proc = "GDN" THEN r.child_class = k
                                  ELSE r.combined_class = k)

\* the valid resolved dates among rows
ValidDates(rows) ==
    {rows[i].Resolved_date.val : i \in {n \in 1..Len(rows) : rows[n].Resolved_date.kind = "datestr"}}

Latest(S) == CHOOSE d \in S : \A e \in S : e <= d

\* C18: for every node key present in the normalized Outflow, the Resolved Date of
\* the node is the most recent valid resolved date among the Outflow rows of that
\* key, also when some rows of the key have a missing or unparseable resolved_date
C18_LatestResolvedDate ==
    result.success =>
        \A n \in 1..Len(result.cadence) :
            LET rows == OutflowOfKey(result.cadence[n].key)
            IN  ValidDates(rows) # {} =>
                    result.cadence[n].row.Resolved_Date = DateStr(Latest(ValidDates(rows)))

\* the Outflow rows of the file whose derived child_class equals their parent_class P
SameClassRows(P) ==
    SelectSeq(files.outflow, LAMBDA r : r.child_class = P /\ r.parent_class = P)

\* C20: for GDN, an ARMT row with child_class 'No-Child' and parent_class P (node key
\* P) and the Outflow rows whose child_class equals their parent_class P are grouped
\* under the same key: the output row of P carries the sum of their NC and their
\* Resolved Date, not the not-found sentinel
C20_NoChildGrouping ==
    (proc = "GDN" /\ result.success) =>
        \A n \in 1..Len(result.cadence), i \in 1..Len(files.armt) :
            LET P == files.armt[i].parent_class
                rows == SameClassRows(P)
            IN  (/\ files.armt[i].child_class = "No-Child"
                 /\ result.cadence[n].key = P
                 /\ rows # <<>>) =>
                    /\ result.cadence[n].row.NC_Count =
                            NumStr(SumSeq([j \in 1..Len(rows) |-> NC_of(rows[j])]))
                    /\ (\E j \in 1..Len(rows) : rows[j].resolved_date # 0) =>
                            result.cadence[n].row.Resolved_Date # NOT_FOUND

----------------------------------------------------------------------------
(* Claims about the Node Enumerator (checked under NodeSpec) *)

\* the GDN node universe as the specification describes it
GDN_ExpectedNodes(a) ==
    {a[i].child_class : i \in {n \in 1..Len(a) :
        \/ /\ a[n].program = "AmazonGlobal"
           /\ Elems(a[n].Source) \cap GDN_Core # {}
        \/ /\ a[n].program = "CrossListing"
           /\ Elems(a[n].Destination) \cap GDN_Cross # {}
           /\ Elems(a[n].Source) \cap GDN_Excluded_Sources = {}}}

\* C21: the GDN node universe is exactly the child_class keys of AmazonGlobal rows
\* whose Source list has a core value and of CrossListing rows whose Destination
\* list has a cross value and whose Source is not excluded; a CrossListing row that
\* fails the second test, or has any excluded Source, contributes no key
C21_GDNNodeUniverse ==
    (proc = "GDN" /\ step = "check_nodes") =>
        Elems(nodes) = GDN_ExpectedNodes(armt_df)

\* the IAS node universe as the specification describes it
IAS_ExpectedNodes(a) ==
    {a[i].combined_class : i \in {n \in 1..Len(a) :
        a[n].program = "AmazonGlobal" /\ a[n].Source \in IAS_Core}}
    \cup {a[i].combined_class2 : i \in {n \in 1..Len(a) :
        a[n].program = "CrossListing" /\ a[n].Source \in IAS_CrossListing_Sources}}

\* C22: the IAS node universe is exactly the primary keys of AmazonGlobal rows whose
\* Source is in IAS_Core (FR, IT, ES, ANY, Any) and the secondary keys of
\* CrossListing rows whose Source is in the cross-listing source list
C22_IASNodeUniverse ==
    (proc = "IAS" /\ step = "check_nodes") =>
        Elems(nodes) = IAS_ExpectedNodes(armt_df)

----------------------------------------------------------------------------
(* Claims about the normalization of the Outflow (checked under OutflowSpec) *)

\* the key of an Outflow row of the file, as the normalization derives it
KeyOfFileRow(r) ==
    LET child == IF r.child_class = r.parent_class THEN "No-Child" ELSE r.child_class
    IN  IF proc = "GDN" THEN child ELSE <<r.parent_class, child, <<r.source>>>>

\* the rows of the file that the specification counts for a key: root_cause and
\* root_cause_details present, the group not excluded by the node, the root cause
\* not Duplicate, Other or Negative Class
SurvivingRowsOfKey(k) ==
    SelectSeq(files.outflow,
              LAMBDA r : /\ r.has_root_cause /\ r.has_details
                         /\ r.assigned_to_group \notin
                                (IF proc = "GDN" THEN GDN_del_groups ELSE IAS_del_groups)
                         /\ r.root_cause \notin {"Duplicate", "Other", "Negative Class"}
                         /\ KeyOfFileRow(r) = k)

\* twice the value of a number cell, a malformed or missing cell counting as 0
TwiceValue(x) ==
    IF x.kind = "num" THEN 2 * x.val ELSE IF x.kind = "frac" THEN 2 * x.val + 1 ELSE 0

\* twice the sum of quantity + vendor_id over rows
TwiceSum(rows) ==
    SumSeq([i \in 1..Len(rows) |-> TwiceValue(rows[i].quantity) + TwiceValue(rows[i].vendor_id)])

\* twice the sum of quantity + the whole part of vendor_id over rows
TwiceSumWhole(rows) ==
    SumSeq([i \in 1..Len(rows) |->
                TwiceValue(rows[i].quantity) + 2 * (TwiceValue(rows[i].vendor_id) \div 2)])

\* C23 as stated: for every node key the NC Count is the sum of quantity + vendor_id
\* over exactly the Outflow rows that have the key and survive normalization, a
\* malformed or missing number counting as 0; it is the sentinel iff no surviving row
\* has the key
C23_NCCountIsSum ==
    result.success =>
        \A n \in 1..Len(result.cadence) :
            LET rows == SurvivingRowsOfKey(result.cadence[n].key)
                nc == result.cadence[n].row.NC_Count
            IN  /\ (nc = NOT_FOUND) <=> (rows = <<>>)
                /\ rows # <<>> => (nc.kind = "numstr" /\ 2 * nc.val = TwiceSum(rows))

\* C23, amended: the NC Count is the sum of quantity + the whole part of vendor_id
\* (its fractional part is cut off) over exactly the surviving Outflow rows of the
\* key; it is the sentinel iff no surviving row has the key
C23_NCCountIsWholeSum ==
    result.success =>
        \A n \in 1..Len(result.cadence) :
            LET rows == SurvivingRowsOfKey(result.cadence[n].key)
                nc == result.cadence[n].row.NC_Count
            IN  /\ (nc = NOT_FOUND) <=> (rows = <<>>)
                /\ rows # <<>> => (nc.kind = "numstr" /\ 2 * nc.val = TwiceSumWhole(rows))

\* a returned row whose key has a surviving Outflow row with a fractional vendor_id,
\* while another row of the file did not survive
C23_Witness ==
    /\ result.success
    /\ \E n \in 1..Len(result.cadence) :
          LET rows == SurvivingRowsOfKey(result.cadence[n].key)
          IN  /\ \E i \in 1..Len(rows) : rows[i].vendor_id.kind = "frac"
              /\ Len(rows) < Len(files.outflow)
              /\ result.cadence[n].row.NC_Count # NOT_FOUND

----------------------------------------------------------------------------
(* Claims about the column merge of IAS (checked under MergeSpec) *)

\* the primary/secondary pairs of merge_columns among the columns of the row
MergePairs ==
    {<<"Policies", "Policies2">>, <<"Destination", "Destination2">>,
     <<"Resolved_Date", "Resolved_Date2">>, <<"Previous_Cadence", "Previous_Cadence2">>,
     <<"Previous_Due_Date", "Previous_Due_Date2">>, <<"NC_Count", "NC_Count2">>}

PrimaryColumns == {pair[1] : pair \in MergePairs}

\* the values that stand for 'not found': the sentinel and the strings that
\* is_not_found treats like it ('nan', '', 'None', 'NaT', 'not found')
NotFoundLike(x) == x = NOT_FOUND \/ x = NanStr \/ x = NaN

----------------------------------------------------------------------------
(* Claims about the Master table that process() returns (checked under RunSpec) *)

\* C26: the master table returned by a successful process() is a passthrough of the
\* Master input: it has the columns of the Master table that was read, none added,
\* removed or changed (IAS and GDN)
C26_MasterPassthrough ==
    result.success => result.master = MasterFileColumns(proc)

----------------------------------------------------------------------------
(* Claims about the sentinel in the Cadence table (checked under MergeSpec) *)

\* the stages after the Master Merger, and the final output
AfterMasterMerger ==
    pc \in {"merge_columns", "update_cadence_score", "calculate_due_dates",
            "finalize_cadence", "done"}

\* a cell that holds a real value or the string 'not Found!': no null, no text of a
\* null ('nan'), no missing column
RealOrSentinel(c) == c.kind \notin {"nan", "nanstr", "absent"}

\* C27: every lookup maps an absent key, or a present key with a missing value, to
\* the sentinel: after the Master Merger and in the final output each of Policies,
\* Destination, Resolved Date, NC Count, Previous Cadence, Previous Due Date,
\* Previous NC and Due Date holds a real value or 'not Found!' (Previous NC is the
\* sentinel when the Master has no 'NC Count' column), and risk score is a number,
\* 1 when the parent_score is missing
C27_SentinelNeverNull ==
    AfterMasterMerger =>
        /\ \A c \in {"Policies", "Destination", "Resolved_Date", "NC_Count",
                      "Previous_Cadence", "Previous_Due_Date", "Previous_NC"} :
              RealOrSentinel(Cadence[c])
        /\ pc \in {"finalize_cadence", "done"} => RealOrSentinel(Cadence.Due_Date)
        /\ master.NC_Count = Absent => Cadence.Previous_NC = NOT_FOUND
        /\ Cadence.risk_score \in Int
        /\ (armt.hit /\ armt.parent_score = NaN) => Cadence.risk_score = 1

----------------------------------------------------------------------------
(* Claims about the feedback of the output as the next Master (checked under   *)
(* FeedbackSpec)                                                               *)

\* the Cadence Score that the previous run wrote for the node
FedBackScore == IF master.hit THEN master.Cadence_Score ELSE master2.Cadence_Score

\* the finished run left the node's score as the previous run wrote it
ScoreUnchanged ==
    pc = "done" => (run >= 2 /\ Num(Cadence.Cadence_Score) = FedBackScore)

\* C28: no perpetual oscillation under constant inputs -- with ARMT and Outflow held
\* constant and each run's output fed back as the next Master, for every risk score
\* and every current NC (present or absent) the node's Cadence Score eventually
\* reaches a value that no later run changes
C28_ScoreSettles == <>[]ScoreUnchanged

----------------------------------------------------------------------------
(* Claims about the Due Date of the final output (checked under Spec) *)

\* a cell that is not the not-found sentinel or one of its spellings
Known(c) == ~is_not_found(c)

\* the two cases in which a row gets a Due Date: from the current Resolved Date, or
\* carried forward from the Master when there is no current NC
DueDateCase ==
    \/ Known(Cadence.NC_Count) /\ Known(Cadence.Resolved_Date)
    \/ ~Known(Cadence.NC_Count) /\ Known(Cadence.Previous_Due_Date)

\* the same two cases, with 'known' read as 'a date'
DueDateCaseOfDates ==
    \/ Known(Cadence.NC_Count) /\ Cadence.Resolved_Date.kind = "datestr"
    \/ ~Known(Cadence.NC_Count) /\ Cadence.Previous_Due_Date.kind = "datestr"

\* C29: in the final output a row's Due Date is a real date if and only if (a) its
\* current NC and its Resolved Date are both known, or (b) its current NC is the
\* sentinel and its Previous Due Date is known; a row with a known NC and an unknown
\* Resolved Date has Due Date 'not Found!' whatever the Master holds
C29_DueDateIff ==
    pc = "done" =>
        /\ Known(Cadence.Due_Date) <=> DueDateCase
        /\ Cadence.Due_Date.kind = "datestr" <=> DueDateCaseOfDates
        /\ (Known(Cadence.NC_Count) /\ ~Known(Cadence.Resolved_Date))
              => Cadence.Due_Date = NOT_FOUND

\* a row with a known NC, no Resolved Date and a Previous Due Date in the Master:
\* its Due Date is the sentinel
C29_Witness ==
    /\ pc = "done"
    /\ Known(Cadence.NC_Count)
    /\ ~Known(Cadence.Resolved_Date)
    /\ Cadence.Previous_Due_Date.kind = "datestr"
    /\ Cadence.Due_Date = NOT_FOUND

----------------------------------------------------------------------------
(* Claims about NC Count and Resolved Date of one row (checked under RunSpec) *)

\* C30: in every Cadence row (IAS after the column merge, GDN directly), if NC Count
\* is the sentinel then Resolved Date is the sentinel too, both being looked up under
\* the same key in the same normalized Outflow; so no row that takes the
\* previous-period fallback has a current Resolved Date
C30_NoNCNoResolvedDate ==
    /\ (proc = "GDN" \/ "merge_columns" \in executed) =>
          \A n \in 1..Len(Cadence_df) :
              ("create_cadence" \in executed /\ Cadence_df[n].row.NC_Count = NOT_FOUND)
                  => Cadence_df[n].row.Resolved_Date = NOT_FOUND
    /\ result.success =>
          \A n \in 1..Len(result.cadence) :
              result.cadence[n].row.NC_Count = NOT_FOUND
                  => result.cadence[n].row.Resolved_Date = NOT_FOUND

\* the Outflow has rows, none under the node's key: the node's row of the output has
\* neither an NC Count nor a Resolved Date
C30_Witness ==
    /\ result.success
    /\ files.outflow # <<>>
    /\ \E n \in 1..Len(result.cadence) :
          /\ result.cadence[n].row.NC_Count = NOT_FOUND
          /\ result.cadence[n].row.Resolved_Date = NOT_FOUND

====
